---- MODULE Spec2Model ----
(***************************************************************************)
(* Product listing endpoint of node-ts-starter                             *)
(* (src/src/controllers/products.controller.ts), with the error            *)
(* middleware that wraps it (src/src/middlewares/index.ts) and the product *)
(* writers that share the products table.                                  *)
(*                                                                         *)
(* Text values (query-string keys and values, product names) are sequences *)
(* of one-character strings, so that the regular expressions, Number(),    *)
(* toString(), toUpperCase() and camelCase() of the source are computed    *)
(* and not assumed.                                                        *)
(***************************************************************************)
EXTENDS Integers, Sequences, FiniteSets, TLC

VARIABLES
    products,       \* rows of the products table
    nextId,         \* AUTO_INCREMENT counter of the products table
    writes,         \* number of product writes executed so far
    pc,             \* position of the listing request in getProducts
    query,          \* req.query of the listing request
    validated,      \* validationResult.data of the listing request
    issued,         \* statements handed to pool.execute by the listing request
    snapshots,      \* products table as it was when each statement ran
    productsResult, \* rows returned by the data statement
    responses,      \* responses sent for the listing request
    logged,         \* messages the listing request gave to logger.error
    writeResponses, \* responses sent by the product writers
    calls,          \* the calls of the other handlers that have ended, oldest first
    users,          \* rows of the users table
    signups         \* the signup requests in flight, by request

vars == <<products, nextId, writes, pc, query, validated, issued, snapshots,
          productsResult, responses, logged, writeResponses, calls, users, signups>>

\* what the handlers other than getProducts and the product writers keep
ApiVars == <<calls, users, signups>>

-----------------------------------------------------------------------------
(* Characters and text *)

LowerCase == <<"a","b","c","d","e","f","g","h","i","j","k","l","m",
               "n","o","p","q","r","s","t","u","v","w","x","y","z">>
UpperCase == <<"A","B","C","D","E","F","G","H","I","J","K","L","M",
               "N","O","P","Q","R","S","T","U","V","W","X","Y","Z">>
Digits == <<"0","1","2","3","4","5","6","7","8","9">>

RECURSIVE IndexFrom(_, _, _)
IndexFrom(c, alphabet, i) ==
    IF i > Len(alphabet) THEN 0
    ELSE IF alphabet[i] = c THEN i
    ELSE IndexFrom(c, alphabet, i + 1)

\* position of the character in the alphabet, 0 when it is not in it
IndexIn(c, alphabet) == IndexFrom(c, alphabet, 1)

DigitSet == {Digits[i] : i \in 1..Len(Digits)}
UpperSet == {UpperCase[i] : i \in 1..Len(UpperCase)}
LowerSet == {LowerCase[i] : i \in 1..Len(LowerCase)}

IsDigit(c) == c \in DigitSet
IsUpper(c) == c \in UpperSet
IsLower(c) == c \in LowerSet

\* the upper-case letter of each lower-case one, and the reverse
UpperOf == [c \in LowerSet |-> UpperCase[IndexIn(c, LowerCase)]]
LowerOf == [c \in UpperSet |-> LowerCase[IndexIn(c, UpperCase)]]
DigitOf == [c \in DigitSet |-> IndexIn(c, Digits) - 1]

\* String.prototype.toUpperCase / toLowerCase, one character
CharUpper(c) == IF IsLower(c) THEN UpperOf[c] ELSE c
CharLower(c) == IF IsUpper(c) THEN LowerOf[c] ELSE c

toUpperCase(s) == [i \in 1..Len(s) |-> CharUpper(s[i])]
toLowerCase(s) == [i \in 1..Len(s) |-> CharLower(s[i])]

\* String.prototype.includes
includes(s, sub) ==
    \E i \in 0..(Len(s) - Len(sub)) :
        \A j \in 1..Len(sub) : s[i + j] = sub[j]

\* order of UTF-16 code units among the characters used here:
\* "'" < digits < upper case < "_" < lower case
CodeUnits == <<"'">> \o Digits \o UpperCase \o <<"_">> \o LowerCase

\* s < t on two strings: lexicographic by code unit
RECURSIVE StringLess(_, _)
StringLess(s, t) ==
    IF Len(t) = 0 THEN FALSE
    ELSE IF Len(s) = 0 THEN TRUE
    ELSE IF s[1] = t[1] THEN StringLess(Tail(s), Tail(t))
    ELSE IndexIn(s[1], CodeUnits) < IndexIn(t[1], CodeUnits)

-----------------------------------------------------------------------------
(* JavaScript values that reach the schema refinements *)

Undefined == [t |-> "undefined", s |-> <<>>, n |-> 0]
NaN       == [t |-> "nan",       s |-> <<>>, n |-> 0]
Str(s)    == [t |-> "string",    s |-> s,    n |-> 0]
Num(n)    == [t |-> "number",    s |-> <<>>, n |-> n]

RECURSIVE DigitsValue(_)
DigitsValue(s) ==
    IF Len(s) = 0 THEN 0
    ELSE 10 * DigitsValue(SubSeq(s, 1, Len(s) - 1)) + DigitOf[s[Len(s)]]

\* Number(x): undefined is NaN, the empty string is 0, a string of decimal
\* digits is its value, any other string over the characters used here is NaN
Number(v) ==
    CASE v.t = "number" -> v
      [] v.t = "nan" -> NaN
      [] v.t = "undefined" -> NaN
      [] v.t = "string" ->
            IF \A i \in 1..Len(v.s) : IsDigit(v.s[i])
            THEN Num(DigitsValue(v.s))
            ELSE NaN

isNaN(v) == Number(v).t = "nan"

\* a < b: two strings compare as strings, anything else as numbers,
\* and a comparison with NaN is false
JsLess(a, b) ==
    IF a.t = "string" /\ b.t = "string" THEN StringLess(a.s, b.s)
    ELSE /\ ~isNaN(a)
         /\ ~isNaN(b)
         /\ Number(a).n < Number(b).n

JsLessEq(a, b) ==
    IF a.t = "string" /\ b.t = "string" THEN ~StringLess(b.s, a.s)
    ELSE /\ ~isNaN(a)
         /\ ~isNaN(b)
         /\ Number(a).n <= Number(b).n

\* truthiness, as used by `value && ...`
Truthy(v) ==
    CASE v.t = "number" -> v.n # 0
      [] v.t = "string" -> Len(v.s) > 0
      [] OTHER -> FALSE

\* Number.prototype.toString of a non-negative integer
RECURSIVE toString(_)
toString(n) ==
    IF n < 10 THEN <<Digits[n + 1]>>
    ELSE toString(n \div 10) \o <<Digits[(n % 10) + 1]>>

\* template-literal rendering `${v}`
Render(v) ==
    CASE v.t = "string" -> v.s
      [] v.t = "number" -> toString(v.n)
      [] v.t = "nan" -> <<"N","a","N">>
      [] OTHER -> <<"u","n","d","e","f","i","n","e","d">>

-----------------------------------------------------------------------------
(* lodash camelCase, for keys made of letters and "_": a word starts after *)
(* "_" and at an upper-case letter that follows a lower-case one; every    *)
(* word is lower-cased and every word but the first gets its first letter  *)
(* upper-cased.                                                            *)

RECURSIVE CamelFrom(_, _, _, _)
CamelFrom(s, i, started, fresh) ==
    IF i > Len(s) THEN <<>>
    ELSE IF s[i] = "_" THEN CamelFrom(s, i + 1, started, TRUE)
    ELSE LET boundary == fresh \/ (i > 1 /\ IsUpper(s[i]) /\ IsLower(s[i - 1]))
             out == IF boundary /\ started THEN CharUpper(s[i]) ELSE CharLower(s[i])
         IN  <<out>> \o CamelFrom(s, i + 1, TRUE, FALSE)

camelCase(s) == CamelFrom(s, 1, FALSE, TRUE)

\* the entries of req.query under the keys they came with
mapKeysUnchanged(q) == q

\* _.mapKeys(plainQuery, (_value, key) => _.camelCase(key)): the entries of
\* req.query under their new keys
mapKeys(q) == [i \in 1..Len(q) |-> [key |-> camelCase(q[i].key), value |-> q[i].value]]

\* the property `name` of an object given by its entries: the last entry with
\* that key wins, and a key that is not there gives undefined
Property(entries, name) ==
    LET hits == {i \in 1..Len(entries) : entries[i].key = name}
    IN  IF hits = {} THEN Undefined
        ELSE Str(entries[CHOOSE i \in hits : \A j \in hits : j <= i].value)

-----------------------------------------------------------------------------
(* Names that appear in the source as string literals *)

Electronics == <<"E","l","e","c","t","r","o","n","i","c","s">>
Books == <<"B","o","o","k","s">>
HomeDecor == <<"H","o","m","e"," ","D","e","c","o","r">>
Clothing == <<"C","l","o","t","h","i","n","g">>
FoodAndBeverages == <<"F","o","o","d"," ","&"," ","B","e","v","e","r","a","g","e","s">>
HealthAndBeauty == <<"H","e","a","l","t","h"," ","&"," ","B","e","a","u","t","y">>
SportsAndLeisure == <<"S","p","o","r","t","s"," ","&"," ","L","e","i","s","u","r","e">>
Toys == <<"T","o","y","s">>
Handicrafts == <<"H","a","n","d","i","c","r","a","f","t","s">>
OfficeSupplies == <<"O","f","f","i","c","e"," ","S","u","p","p","l","i","e","s">>

ProductCategory ==
    {Electronics, Books, HomeDecor, Clothing, FoodAndBeverages, HealthAndBeauty,
     SportsAndLeisure, Toys, Handicrafts, OfficeSupplies}

kCategory == <<"c","a","t","e","g","o","r","y">>
kPriceMin == <<"p","r","i","c","e","M","i","n">>
kPriceMax == <<"p","r","i","c","e","M","a","x">>
kSearch   == <<"s","e","a","r","c","h">>
kPage     == <<"p","a","g","e">>
kLimit    == <<"l","i","m","i","t">>
kSortBy   == <<"s","o","r","t","B","y">>
kOrder    == <<"o","r","d","e","r">>

colId            == <<"i","d">>
colName          == <<"n","a","m","e">>
colOriginalPrice == <<"o","r","i","g","i","n","a","l","_","p","r","i","c","e">>
colDiscountPrice == <<"d","i","s","c","o","u","n","t","_","p","r","i","c","e">>

SortableColumns == {colId, colName, colOriginalPrice, colDiscountPrice}

desc == <<"d","e","s","c">>
asc  == <<"a","s","c">>
Orders == {desc, asc}

MaxLimit == 100

-----------------------------------------------------------------------------
(* productsQuerySchema.  A parse result is [status, value, issues] with    *)
(* zod's three statuses: "valid", "dirty" (a check failed, the value is    *)
(* kept and parsing goes on) and "aborted" (a type error, no value).       *)
(* A message is a text: a sequence of pieces, where a piece is one         *)
(* character or a block of literal text that holds no keyword searched     *)
(* for by isDbError.                                                       *)

\* the message of zod's invalid_enum_value issue, which quotes the received value
InvalidEnumValue(expected, received) ==
    <<"Invalid enum value. Expected ", expected, ", received '">> \o received \o <<"'">>

Valid(v)        == [status |-> "valid",   value |-> v,         issues |-> <<>>]
Dirty(v, msgs)  == [status |-> "dirty",   value |-> v,         issues |-> msgs]
Aborted(msgs)   == [status |-> "aborted", value |-> Undefined, issues |-> msgs]

\* /^\d+$/
MatchesDigits(s) == Len(s) > 0 /\ \A i \in 1..Len(s) : IsDigit(s[i])
\* /^[1-9]\d*$/
MatchesPositive(s) == MatchesDigits(s) /\ s[1] # "0"

\* .transform(Number): runs only on a valid inner result (zod 3.22)
TransformNumber(r) ==
    IF r.status = "valid" THEN Valid(Number(r.value)) ELSE r

\* category: z.nativeEnum(ProductCategory).optional()
ParseCategory(v) ==
    IF v.t = "undefined" THEN Valid(Undefined)
    ELSE IF v.s \in ProductCategory THEN Valid(v)
    ELSE Aborted(<<InvalidEnumValue(
             "'Electronics' | 'Books' | 'Home Decor' | 'Clothing' | 'Food & Beverages' | 'Health & Beauty' | 'Sports & Leisure' | 'Toys' | 'Handicrafts' | 'Office Supplies'",
             v.s)>>)

\* priceMin: z.string().regex(/^\d+$/).optional().transform(Number)
ParsePriceMin(v) ==
    TransformNumber(
        IF v.t = "undefined" THEN Valid(Undefined)
        ELSE IF MatchesDigits(v.s) THEN Valid(v)
        ELSE Dirty(v, << <<"Minium price must be a non-negative integer">> >>))

\* priceMax: z.string().regex(/^[1-9]\d*$/).optional().transform(Number)
ParsePriceMax(v) ==
    TransformNumber(
        IF v.t = "undefined" THEN Valid(Undefined)
        ELSE IF MatchesPositive(v.s) THEN Valid(v)
        ELSE Dirty(v, << <<"Maximum price must be a positive integer">> >>))

\* search: z.string().optional()
ParseSearch(v) == Valid(v)

\* page: z.string().regex(/^[1-9]\d*$/).default('1').transform(Number)
ParsePage(v) ==
    LET w == IF v.t = "undefined" THEN Str(<<"1">>) ELSE v
    IN  TransformNumber(
            IF MatchesPositive(w.s) THEN Valid(w)
            ELSE Dirty(w, << <<"Page must be a positive integer">> >>))

\* a limit without the upper bound
ParseLimitUnbounded(v) ==
    LET w == IF v.t = "undefined" THEN Str(<<"1","0">>) ELSE v
    IN  TransformNumber(
            IF MatchesPositive(w.s) THEN Valid(w)
            ELSE Dirty(w, << <<"Limit must be a positive integer">> >>))

\* limit: z.string().regex(/^[1-9]\d*$/).default('10').transform(Number)
\*        .refine((value) => value <= 100)
ParseLimit(v) ==
    LET w == IF v.t = "undefined" THEN Str(<<"1","0">>) ELSE v
        inner == TransformNumber(
                     IF MatchesPositive(w.s) THEN Valid(w)
                     ELSE Dirty(w, << <<"Limit must be a positive integer">> >>))
    IN  IF JsLessEq(inner.value, Num(MaxLimit)) THEN inner
        ELSE Dirty(inner.value,
                   inner.issues \o << <<"Limit must be less than or equal to 100">> >>)

\* a sortBy that is not checked against the column list
ParseSortByUnchecked(v) ==
    IF v.t = "undefined" THEN Valid(Str(colId)) ELSE Valid(v)

\* sortBy: z.enum(['id', 'name', 'original_price', 'discount_price']).optional().default('id')
ParseSortBy(v) ==
    IF v.t = "undefined" THEN Valid(Str(colId))
    ELSE IF v.s \in SortableColumns THEN Valid(v)
    ELSE Aborted(<<InvalidEnumValue("'id' | 'name' | 'original_price' | 'discount_price'", v.s)>>)

\* an order whose default is asc
ParseOrderDefaultAsc(v) ==
    IF v.t = "undefined" THEN Valid(Str(asc))
    ELSE IF v.s \in Orders THEN Valid(v)
    ELSE Aborted(<<InvalidEnumValue("'desc' | 'asc'", v.s)>>)

\* order: z.enum(['desc', 'asc']).optional().default('desc')
ParseOrder(v) ==
    IF v.t = "undefined" THEN Valid(Str(desc))
    ELSE IF v.s \in Orders THEN Valid(v)
    ELSE Aborted(<<InvalidEnumValue("'desc' | 'asc'", v.s)>>)

\* the object-level refinement: priceMin < priceMax unless one of them is NaN
PriceRangeOk(data) ==
    IF isNaN(data.priceMin) \/ isNaN(data.priceMax) THEN TRUE
    ELSE JsLess(data.priceMin, data.priceMax)

\* the fields of z.object({...}), in the order of the shape
ParseFields(q) ==
    <<ParseCategory(Property(q, kCategory)),
      ParsePriceMin(Property(q, kPriceMin)),
      ParsePriceMax(Property(q, kPriceMax)),
      ParseSearch(Property(q, kSearch)),
      ParsePage(Property(q, kPage)),
      ParseLimit(Property(q, kLimit)),
      ParseSortBy(Property(q, kSortBy)),
      ParseOrder(Property(q, kOrder))>>

RECURSIVE FieldIssues(_)
FieldIssues(fs) ==
    IF Len(fs) = 0 THEN <<>> ELSE fs[1].issues \o FieldIssues(Tail(fs))

\* productsQuerySchema.safeParse(camelCasedQuery): the object is aborted when
\* a field is aborted, and the refinement of an aborted object does not run
safeParse(camelCasedQuery) ==
    LET fs == ParseFields(camelCasedQuery)
        data == [category |-> fs[1].value, priceMin |-> fs[2].value,
                 priceMax |-> fs[3].value, search   |-> fs[4].value,
                 page     |-> fs[5].value, limit    |-> fs[6].value,
                 sortBy   |-> fs[7].value, order    |-> fs[8].value]
        aborted == \E i \in 1..Len(fs) : fs[i].status = "aborted"
        issues == FieldIssues(fs) \o
                  (IF ~aborted /\ ~PriceRangeOk(data)
                   THEN << <<"Minimum price must be less than maximum price">> >>
                   ELSE <<>>)
    IN  [success |-> Len(issues) = 0, data |-> data, issues |-> issues]

-----------------------------------------------------------------------------
(* Storage: the categories and products tables and the execution of the    *)
(* statements the handlers send.                                           *)

\* INSERT INTO categories (name) VALUES ...: the id of a category is its position
Categories ==
    <<Electronics, Books, HomeDecor, Clothing, FoodAndBeverages, HealthAndBeauty,
      SportsAndLeisure, Toys, Handicrafts, OfficeSupplies>>

\* c.name of the LEFT JOIN; <<>> stands for NULL when no category matches
CategoryName(row) ==
    IF row.category_id \in 1..Len(Categories) THEN Categories[row.category_id] ELSE <<>>

\* a statement is its SQL text, kept in parts, and its bound parameters:
\*   select, from   the literal head of the text
\*   where          the interpolated predicates, joined by ' AND ' after ' WHERE '
\*   orderBy, direction   the interpolated ORDER BY (<<>> when there is none)
\*   placeholders   the number of '?' in the text
\*   params         the values bound to the placeholders
WhereClause(test, pre, v, post) ==
    [keep |-> Truthy(test), pre |-> pre, value |-> Render(v), post |-> post]

\* _.compact(array): the entries whose filter is truthy
compact(array) == SelectSeq(array, LAMBDA c : c.keep)

\* lines 85-90: the predicates of the data statement
productsWhereClauses(data) ==
    compact(<<WhereClause(data.category, "c.name = '", data.category, "'"),
              WhereClause(data.priceMin, "p.discount_price >= ", data.priceMin, ""),
              WhereClause(data.priceMax, "p.discount_price <= ", data.priceMax, ""),
              WhereClause(data.search, "p.name LIKE '%", data.search, "%'")>>)

\* a count statement that leaves the search predicate out
countWhereClausesWithoutSearch(data) ==
    compact(<<WhereClause(data.category, "c.name = '", data.category, "'"),
              WhereClause(data.priceMin, "p.discount_price >= ", data.priceMin, ""),
              WhereClause(data.priceMax, "p.discount_price <= ", data.priceMax, "")>>)

\* lines 114-119: the predicates of the count statement
countWhereClauses(data) ==
    compact(<<WhereClause(data.category, "c.name = '", data.category, "'"),
              WhereClause(data.priceMin, "p.discount_price >= ", data.priceMin, ""),
              WhereClause(data.priceMax, "p.discount_price <= ", data.priceMax, ""),
              WhereClause(data.search, "p.name LIKE '%", data.search, "%'")>>)

\* an offset that takes the page number for the number of pages to skip
OffsetOfPage(page, limit) == page * limit

\* line 73: offset = (page - 1) * limit
Offset(page, limit) == (page - 1) * limit

ProductsQuery(data) ==
    [select |-> "p.id, p.name, p.original_price, p.discount_price, p.description, c.name AS category_name",
     from |-> "products p LEFT JOIN categories c ON p.category_id = c.id",
     where |-> productsWhereClauses(data),
     orderBy |-> data.sortBy.s,
     direction |-> toUpperCase(data.order.s),
     placeholders |-> 2,
     params |-> <<toString(data.limit.n), toString(Offset(data.page.n, data.limit.n))>>]

CountQuery(data) ==
    [select |-> "COUNT(*) AS total",
     from |-> "products p LEFT JOIN categories c ON p.category_id = c.id",
     where |-> countWhereClauses(data),
     orderBy |-> <<>>,
     direction |-> <<>>,
     placeholders |-> 0,
     params |-> <<>>]

\* the text parses: a quote inside an interpolated string literal ends the
\* literal early and leaves text the parser rejects
SyntaxOk(stmt) ==
    \A i \in 1..Len(stmt.where) : ~includes(stmt.where[i].value, <<"'">>)

\* text LIKE pattern: '%' stands for any run of characters, '_' for any one
\* character, and any other character for itself without regard to letter
\* case (the server's default collation)
RECURSIVE Like(_, _)
Like(text, pattern) ==
    IF Len(pattern) = 0 THEN Len(text) = 0
    ELSE IF pattern[1] = "%"
    THEN Like(text, Tail(pattern)) \/ (Len(text) > 0 /\ Like(Tail(text), pattern))
    ELSE /\ Len(text) > 0
         /\ (pattern[1] = "_" \/ CharLower(pattern[1]) = CharLower(text[1]))
         /\ Like(Tail(text), Tail(pattern))

\* one predicate of the WHERE clause on a joined row
Satisfies(row, clause) ==
    CASE clause.pre = "c.name = '" -> CategoryName(row) = clause.value
      [] clause.pre = "p.discount_price >= " -> row.discount_price >= DigitsValue(clause.value)
      [] clause.pre = "p.discount_price <= " -> row.discount_price <= DigitsValue(clause.value)
      [] clause.pre = "p.name LIKE '%" ->
            Like(row.name, <<"%">> \o clause.value \o <<"%">>)

Matching(stmt, table) ==
    {row \in table : \A i \in 1..Len(stmt.where) : Satisfies(row, stmt.where[i])}

\* row a may come before row b under ORDER BY column
NotAfter(a, b, column) ==
    CASE column = colId -> a.id <= b.id
      [] column = colName -> ~StringLess(toLowerCase(b.name), toLowerCase(a.name))
      [] column = colOriginalPrice -> a.original_price <= b.original_price
      [] column = colDiscountPrice -> a.discount_price <= b.discount_price

\* an ORDER BY that is ascending whatever the direction
OrderedAscending(rows, column, direction) ==
    \A i \in 1..Len(rows) : \A j \in 1..Len(rows) :
        i < j => NotAfter(rows[i], rows[j], column)

\* the rows are in an order that ORDER BY column direction allows
Ordered(rows, column, direction) ==
    \A i \in 1..Len(rows) : \A j \in 1..Len(rows) :
        i < j => IF direction = <<"A","S","C">>
                 THEN NotAfter(rows[i], rows[j], column)
                 ELSE NotAfter(rows[j], rows[i], column)

Min(a, b) == IF a < b THEN a ELSE b

\* a data statement that takes no account of OFFSET
SelectResultsWithoutOffset(stmt, table) ==
    LET m == Matching(stmt, table)
        n == Cardinality(m)
        limit == DigitsValue(stmt.params[1])
        orders == {f \in [1..n -> m] :
                      /\ \A r \in m : \E i \in 1..n : f[i] = r
                      /\ Ordered(f, stmt.orderBy, stmt.direction)}
    IN  {SubSeq(f, 1, Min(limit, n)) : f \in orders}

\* the row lists the data statement may return: the matching rows in an order
\* that ORDER BY allows (rows equal in the column come in any order), cut by
\* LIMIT and OFFSET
SelectResults(stmt, table) ==
    LET m == Matching(stmt, table)
        n == Cardinality(m)
        limit == DigitsValue(stmt.params[1])
        offset == DigitsValue(stmt.params[2])
        orders == {f \in [1..n -> m] :
                      /\ \A r \in m : \E i \in 1..n : f[i] = r
                      /\ Ordered(f, stmt.orderBy, stmt.direction)}
    IN  {SubSeq(f, offset + 1, Min(offset + limit, n)) : f \in orders}

\* COUNT(*) of the count statement
CountResult(stmt, table) == Cardinality(Matching(stmt, table))

-----------------------------------------------------------------------------
(* Responses and the error middleware *)

OK == 200
CREATED == 201
NO_CONTENT == 204
BAD_REQUEST == 400
UNAUTHORIZED == 401
NOT_FOUND == 404
INTERNAL_SERVER_ERROR == 500

\* statusMapping[statusCode]; a code without an entry gives undefined
statusMapping(statusCode) ==
    CASE statusCode \in {OK, CREATED} -> "success"
      [] statusCode \in {BAD_REQUEST, UNAUTHORIZED, NOT_FOUND, INTERNAL_SERVER_ERROR} -> "error"
      [] OTHER -> "undefined"

NoData == [kind |-> "undefined"]

\* sendResponse({ res, statusCode, message, data }): res.status(statusCode).json(...)
sendResponse(statusCode, message, data) ==
    [statusCode |-> statusCode, status |-> statusMapping(statusCode),
     message |-> message, data |-> data]

RECURSIVE Join(_, _)
Join(texts, separator) ==
    IF Len(texts) = 0 THEN <<>>
    ELSE IF Len(texts) = 1 THEN texts[1]
    ELSE texts[1] \o <<separator>> \o Join(Tail(texts), separator)

\* error values: name is the class, message the text of err.message
NotFoundError(message) == [name |-> "NotFoundError", message |-> message, issues |-> <<>>]
DatabaseError(message) == [name |-> "DatabaseError", message |-> message, issues |-> <<>>]
Error(message)         == [name |-> "Error",         message |-> message, issues |-> <<>>]
\* ZodError: err.message is the JSON text of the issues, which holds every
\* issue's message
ZodError(issues) ==
    [name |-> "ZodError",
     message |-> <<"[">> \o Join(issues, ",") \o <<"]">>,
     issues |-> issues]

kwSqlSyntax == <<"S","Q","L"," ","s","y","n","t","a","x">>
kwMySQL     == <<"M","y","S","Q","L">>
dbErrorKeywords == {kwSqlSyntax, kwMySQL}

\* isDbError(message)
isDbError(message) == \E keyword \in dbErrorKeywords : includes(message, keyword)

GenericDatabaseMessage == <<"Database error, please try contacting the administrator">>

\* formatZodError(error): the issue messages joined by '\n'
formatZodError(issues) == Join(issues, "\n")

\* the .catch of catchAsyncError: the error passed to next() and what is logged
catchAsyncError(err) ==
    IF err.name # "NonError" /\ isDbError(err.message)
    THEN [next |-> DatabaseError(GenericDatabaseMessage), log |-> <<err.message>>]
    ELSE [next |-> err, log |-> <<>>]

\* an errorHandler that tests `instanceof Error` first
errorHandlerErrorFirst(err) ==
    IF err.name # "NonError"
    THEN [response |-> sendResponse(INTERNAL_SERVER_ERROR, err.message, NoData),
          log |-> <<err.message>>]
    ELSE [response |-> sendResponse(INTERNAL_SERVER_ERROR, <<"Internal server error">>, NoData),
          log |-> <<err.message>>]

\* errorHandler(err, _req, res, _next): the response sent and what is logged
errorHandler(err) ==
    CASE err.name = "NotFoundError" ->
            [response |-> sendResponse(NOT_FOUND, err.message, NoData), log |-> <<>>]
      [] err.name = "UnauthorizedError" ->
            [response |-> sendResponse(UNAUTHORIZED, err.message, NoData), log |-> <<>>]
      [] err.name = "DatabaseError" ->
            [response |-> sendResponse(INTERNAL_SERVER_ERROR, err.message, NoData), log |-> <<>>]
      [] err.name = "ZodError" ->
            [response |-> sendResponse(BAD_REQUEST, formatZodError(err.issues), NoData),
             log |-> <<>>]
      [] err.name = "Error" ->
            [response |-> sendResponse(INTERNAL_SERVER_ERROR, err.message, NoData),
             log |-> <<err.message>>]
      [] OTHER ->
            [response |-> sendResponse(INTERNAL_SERVER_ERROR, <<"Internal server error">>, NoData),
             log |-> <<err.message>>]

\* a handler wrapped in catchAsyncError throws err: one response, and the log
Thrown(err) ==
    LET caught == catchAsyncError(err)
        handled == errorHandler(caught.next)
    IN  [response |-> handled.response, log |-> caught.log \o handled.log]

\* errors the storage driver raises
ParseError ==
    Error(<<"You have an error in your ">> \o kwSqlSyntax \o
          <<"; check the manual that corresponds to your ">> \o kwMySQL \o
          <<" server version for the right syntax to use">>)
ConnectionRefused == Error(<<"connect ECONNREFUSED 127.0.0.1:3306">>)

\* the errors pool.execute may raise for a statement: a text that does not
\* parse is always rejected; any statement may fail for lack of a connection
StorageErrors(stmt) ==
    IF SyntaxOk(stmt) THEN {ConnectionRefused} ELSE {ParseError, ConnectionRefused}

-----------------------------------------------------------------------------
(* getProducts *)

\* products.map((row) => ({...})) of the handler
ToProduct(row) ==
    [id |-> row.id, name |-> row.name, originalPrice |-> row.original_price,
     discountPrice |-> row.discount_price, description |-> row.description,
     categoryName |-> CategoryName(row)]

\* Math.ceil(totalItems / limit)
TotalPages(totalItems, limit) ==
    IF totalItems % limit = 0 THEN totalItems \div limit ELSE (totalItems \div limit) + 1

\* a pagination whose currentPage is brought back to the last page
PaginationClamped(rows, total, data) ==
    [currentItems |-> Len(rows), totalItems |-> total,
     currentPage |-> Min(data.page.n, TotalPages(total, data.limit.n)),
     itemsPerPage |-> data.limit.n,
     totalPages |-> TotalPages(total, data.limit.n)]

\* lines 128-137
Pagination(rows, total, data) ==
    [currentItems |-> Len(rows), totalItems |-> total,
     currentPage |-> data.page.n, itemsPerPage |-> data.limit.n,
     totalPages |-> TotalPages(total, data.limit.n)]

ListingData(rows, total, data) ==
    [kind |-> "listing",
     products |-> [i \in 1..Len(rows) |-> ToProduct(rows[i])],
     pagination |-> Pagination(rows, total, data)]

NotValidated == [category |-> Undefined, priceMin |-> Undefined, priceMax |-> Undefined,
                 search |-> Undefined, page |-> Undefined, limit |-> Undefined,
                 sortBy |-> Undefined, order |-> Undefined]

\* a rejection that nothing catches: no response is sent
ThrowUncaught(err) ==
    /\ pc' = "done"
    /\ UNCHANGED <<responses, logged>>

\* the listing request ends with the handler throwing err
Throw(err) ==
    /\ responses' = Append(responses, Thrown(err).response)
    /\ logged' = logged \o Thrown(err).log
    /\ pc' = "done"

\* a handler that sends the data statement before it looks at the validation result
GetProductsQueryFirst(q) ==
    /\ pc = "idle"
    /\ query' = q
    /\ LET validationResult == safeParse(mapKeys(q))
       IN  /\ issued' = Append(issued, ProductsQuery(
                    [validationResult.data EXCEPT !.page = Num(1), !.limit = Num(10)]))
           /\ IF ~validationResult.success
              THEN /\ Throw(ZodError(validationResult.issues))
                   /\ UNCHANGED validated
              ELSE /\ validated' = validationResult.data
                   /\ pc' = "awaitProducts"
                   /\ UNCHANGED <<responses, logged>>
    /\ UNCHANGED <<products, nextId, writes, snapshots, productsResult, writeResponses>>

\* lines 60-100: from the call of the handler to the first await
GetProducts(q) ==
    /\ pc = "idle"
    /\ query' = q
    /\ LET validationResult == safeParse(mapKeys(q))
       IN  IF ~validationResult.success
           THEN /\ Throw(ZodError(validationResult.issues))
                /\ UNCHANGED <<validated, issued>>
           ELSE /\ validated' = validationResult.data
                /\ issued' = Append(issued, ProductsQuery(validationResult.data))
                /\ pc' = "awaitProducts"
                /\ UNCHANGED <<responses, logged>>
    /\ UNCHANGED <<products, nextId, writes, snapshots, productsResult, writeResponses>>

\* a handler that answers as soon as the data statement returns, with the
\* number of rows it got as the total
ProductsQueryReturnsAndResponds ==
    /\ pc = "awaitProducts"
    /\ SyntaxOk(issued[1])
    /\ \E rows \in SelectResults(issued[1], products) :
          /\ productsResult' = rows
          /\ responses' = Append(responses,
                sendResponse(OK, <<"Products retrieved successfully">>,
                             ListingData(rows, Len(rows), validated)))
    /\ snapshots' = Append(snapshots, products)
    /\ issued' = Append(issued, CountQuery(validated))
    /\ pc' = "done"
    /\ UNCHANGED <<products, nextId, writes, query, validated, logged, writeResponses>>

\* lines 100-125: the data statement returns rows; the count statement is sent
ProductsQueryReturns ==
    /\ pc = "awaitProducts"
    /\ SyntaxOk(issued[1])
    /\ \E rows \in SelectResults(issued[1], products) :
          productsResult' = rows
    /\ snapshots' = Append(snapshots, products)
    /\ issued' = Append(issued, CountQuery(validated))
    /\ pc' = "awaitCount"
    /\ UNCHANGED <<products, nextId, writes, query, validated, responses, logged,
                   writeResponses>>

\* line 100: pool.execute rejects
ProductsQueryFails ==
    /\ pc = "awaitProducts"
    /\ \E err \in StorageErrors(issued[1]) : Throw(err)
    /\ UNCHANGED <<products, nextId, writes, query, validated, issued, snapshots,
                   productsResult, writeResponses>>

\* lines 125-148: the count statement returns; the response is sent
CountQueryReturns ==
    /\ pc = "awaitCount"
    /\ SyntaxOk(issued[2])
    /\ snapshots' = Append(snapshots, products)
    /\ responses' = Append(responses,
          sendResponse(OK, <<"Products retrieved successfully">>,
              ListingData(productsResult, CountResult(issued[2], products), validated)))
    /\ pc' = "done"
    /\ UNCHANGED <<products, nextId, writes, query, validated, issued, productsResult,
                   logged, writeResponses>>

\* line 125: pool.execute rejects
CountQueryFails ==
    /\ pc = "awaitCount"
    /\ \E err \in StorageErrors(issued[2]) : Throw(err)
    /\ UNCHANGED <<products, nextId, writes, query, validated, issued, snapshots,
                   productsResult, writeResponses>>

-----------------------------------------------------------------------------
(* The product writers.  Each sends one statement; its effect on the table *)
(* and its response are one step.                                          *)

MaxNameLength == 255
MinPrice == 100

\* issues of z.number().positive().min(100)
PriceIssues(n) ==
    (IF n > 0 THEN <<>> ELSE << <<"Number must be greater than 0">> >>) \o
    (IF n >= MinPrice THEN <<>> ELSE << <<"Number must be greater than or equal to 100">> >>)

\* issues of z.string().min(1).max(255)
NameIssues(name) ==
    (IF Len(name) >= 1 THEN <<>> ELSE << <<"String must contain at least 1 character(s)">> >>) \o
    (IF Len(name) <= MaxNameLength THEN <<>>
     ELSE << <<"String must contain at most 255 character(s)">> >>)

\* the issues of a createProductSchema without its refinement
createProductIssuesUnrefined(body) ==
    NameIssues(body.name) \o
    (IF body.categoryId > 0 THEN <<>> ELSE << <<"Number must be greater than 0">> >>) \o
    PriceIssues(body.originalPrice) \o
    PriceIssues(body.discountPrice)

\* createProductSchema.safeParse(req.body), for a body of the right types
createProductIssues(body) ==
    NameIssues(body.name) \o
    (IF body.categoryId > 0 THEN <<>> ELSE << <<"Number must be greater than 0">> >>) \o
    PriceIssues(body.originalPrice) \o
    PriceIssues(body.discountPrice) \o
    (IF body.discountPrice < body.originalPrice THEN <<>> ELSE << <<"Invalid input">> >>)

\* updateProductSchema.safeParse(req.body), for a body of the right types
updateProductIssues(body) ==
    NameIssues(body.name) \o PriceIssues(body.original_price) \o PriceIssues(body.discount_price)

ForeignKeyError ==
    Error(<<"Cannot add or update a child row: a foreign key constraint fails">>)
UnknownColumnError(key) ==
    Error(<<"Unknown column '">> \o key \o <<"' in 'field list'">>)

Written(response) ==
    /\ writes' = writes + 1
    /\ writeResponses' = Append(writeResponses, response)

\* WHERE id = ? with the request's productId: the rows it selects
RowsWithId(productId) ==
    {row \in products : Number(Str(productId)) = Num(row.id)}

\* lines 191-215
CreateProduct(body) ==
    LET issues == createProductIssues(body)
    IN  IF Len(issues) > 0
        THEN /\ Written(Thrown(ZodError(issues)).response)
             /\ UNCHANGED <<products, nextId>>
        ELSE IF body.categoryId \notin 1..Len(Categories)
        THEN /\ Written(Thrown(ForeignKeyError).response)
             /\ UNCHANGED <<products, nextId>>
        ELSE /\ products' = products \cup
                    {[id |-> nextId, category_id |-> body.categoryId, name |-> body.name,
                      original_price |-> body.originalPrice,
                      discount_price |-> body.discountPrice, description |-> <<>>]}
             /\ nextId' = nextId + 1
             /\ Written(sendResponse(CREATED, <<"Product created">>,
                                     [kind |-> "created", productId |-> nextId]))

\* lines 224-248
UpdateProduct(productId, body) ==
    LET issues == updateProductIssues(body)
        hit == RowsWithId(productId)
    IN  /\ UNCHANGED nextId
        /\ IF Len(issues) > 0
           THEN /\ Written(Thrown(ZodError(issues)).response)
                /\ UNCHANGED products
           ELSE IF hit = {}
           THEN /\ Written(Thrown(NotFoundError(<<"Product not found">>)).response)
                /\ UNCHANGED products
           ELSE /\ products' = (products \ hit) \cup
                       {[row EXCEPT !.name = body.name,
                                    !.original_price = body.original_price,
                                    !.discount_price = body.discount_price,
                                    !.description = body.description] : row \in hit}
                /\ Written(sendResponse(OK, <<"Product updated">>, NoData))

PatchableColumns == {colName, colOriginalPrice, colDiscountPrice}

\* the row after SET key = value
SetColumn(row, key, value) ==
    CASE key = colName -> [row EXCEPT !.name = toString(value)]
      [] key = colOriginalPrice -> [row EXCEPT !.original_price = value]
      [] key = colDiscountPrice -> [row EXCEPT !.discount_price = value]

RECURSIVE SetColumns(_, _)
SetColumns(row, updates) ==
    IF Len(updates) = 0 THEN row
    ELSE SetColumns(SetColumn(row, updates[1].key, updates[1].value), Tail(updates))

\* lines 250-274; updates is req.body as its entries in key order, the values
\* positive integers
PatchProduct(productId, updates) ==
    LET hit == RowsWithId(productId)
        unknown == {i \in 1..Len(updates) : updates[i].key \notin PatchableColumns}
    IN  /\ UNCHANGED nextId
        /\ IF Len(updates) = 0
           THEN /\ Written(Thrown(ParseError).response)
                /\ UNCHANGED products
           ELSE IF unknown # {}
           THEN /\ Written(Thrown(UnknownColumnError(
                        updates[CHOOSE i \in unknown : \A j \in unknown : i <= j].key)).response)
                /\ UNCHANGED products
           ELSE IF hit = {}
           THEN /\ Written(Thrown(NotFoundError(<<"Product not found">>)).response)
                /\ UNCHANGED products
           ELSE /\ products' = (products \ hit) \cup {SetColumns(row, updates) : row \in hit}
                /\ Written(sendResponse(OK, <<"Product partially updated">>, NoData))

\* a deleteProduct that does not look at affectedRows
DeleteProductUnchecked(productId) ==
    /\ UNCHANGED nextId
    /\ products' = products \ RowsWithId(productId)
    /\ Written(sendResponse(NO_CONTENT, <<>>, NoData))

\* lines 276-290
DeleteProduct(productId) ==
    LET hit == RowsWithId(productId)
    IN  /\ UNCHANGED nextId
        /\ IF hit = {}
           THEN /\ Written(Thrown(NotFoundError(<<"Product not found">>)).response)
                /\ UNCHANGED products
           ELSE /\ products' = products \ hit
                /\ Written(sendResponse(NO_CONTENT, <<>>, NoData))

-----------------------------------------------------------------------------
(* Inputs *)

\* the largest number of parameters in the query string of a listing request
MaxParams == 4
\* the same, for listing requests that run while products are written
MaxParamsInterleaved == 2
\* the number of product writes in one behaviour
MaxWrites == 2

Entry(key, value) == [key |-> key, value |-> value]

\* a parameter is absent or has one of the values, under one of the spellings of its key
Param(keys, values) ==
    {<<>>} \cup {<<Entry(key, value)>> : key \in keys, value \in values}

CategoryInputs == {Electronics, <<"I","n","v","a","l","i","d","C","a","t","e","g","o","r","y">>, kwMySQL}
PriceMinInputs == {<<"0">>, <<"1","5","0">>, <<"x">>}
PriceMaxInputs == {<<"1","0","0">>, <<"2","0","0">>, <<"0">>}
SearchInputs   == {<<>>, <<"a">>, <<"_">>, <<"'">>}
PageInputs     == {<<"2">>, <<"0">>}
LimitInputs    == {<<"0">>, <<"2">>, <<"1","0","0">>, <<"1","0","1">>}
SortByInputs   == {colId, colName, colOriginalPrice, colDiscountPrice, <<"b","o","g","u","s">>}
OrderInputs    == {asc, desc, <<"A","S","C">>, <<"b","o","g","u","s">>}

\* the choices for each parameter, in the order of the query string
ParamChoices ==
    <<Param({kCategory}, CategoryInputs),
      Param({kPriceMin}, PriceMinInputs),
      Param({kPriceMax}, PriceMaxInputs),
      Param({kSearch}, SearchInputs),
      Param({kPage}, PageInputs),
      Param({kLimit}, LimitInputs),
      Param({kSortBy, <<"s","o","r","t","_","b","y">>}, SortByInputs),
      Param({kOrder}, OrderInputs)>>

\* the query strings made of the parameters from the i-th on, at most n of
\* them present
RECURSIVE QueriesFrom(_, _)
QueriesFrom(i, n) ==
    IF i > Len(ParamChoices) THEN {<<>>}
    ELSE QueriesFrom(i + 1, n) \cup
         (IF n = 0 THEN {}
          ELSE {p \o q : p \in ParamChoices[i] \ {<<>>}, q \in QueriesFrom(i + 1, n - 1)})

AllQueries == QueriesFrom(1, MaxParams)

ListingQueries == {q \in AllQueries : Len(q) <= MaxParams}
InterleavedQueries == {q \in AllQueries : Len(q) <= MaxParamsInterleaved}

CreateInputs ==
    {[name |-> <<"a","c">>, categoryId |-> 1, originalPrice |-> 300, discountPrice |-> 150],
     [name |-> <<"c">>, categoryId |-> 2, originalPrice |-> 150, discountPrice |-> 150]}
UpdateInputs ==
    {[name |-> <<"z">>, original_price |-> 400, discount_price |-> 300, description |-> <<>>]}
PatchInputs ==
    {<<Entry(colDiscountPrice, 100)>>, <<Entry(<<"b","o","g","u","s">>, 100)>>, <<>>}
ProductIdInputs == {<<"1">>, <<"9">>}

-----------------------------------------------------------------------------
(* Specifications *)

\* the users table before any signup of the behaviour
InitialUsers == {}

\* the signup requests that may be in flight together
MaxSignups == 3
Requests == 1..MaxSignups

\* a request that has not been received
NoSignup == [pc |-> "idle"]

InitialProducts ==
    {[id |-> 1, category_id |-> 1, name |-> <<"a","b">>, original_price |-> 300,
      discount_price |-> 200, description |-> <<>>],
     [id |-> 2, category_id |-> 2, name |-> <<"b">>, original_price |-> 200,
      discount_price |-> 100, description |-> <<>>],
     [id |-> 3, category_id |-> 1, name |-> <<"B","a">>, original_price |-> 300,
      discount_price |-> 150, description |-> <<>>]}

Init ==
    /\ products = InitialProducts
    /\ nextId = 4
    /\ writes = 0
    /\ pc = "idle"
    /\ query = <<>>
    /\ validated = NotValidated
    /\ issued = <<>>
    /\ snapshots = <<>>
    /\ productsResult = <<>>
    /\ responses = <<>>
    /\ logged = <<>>
    /\ writeResponses = <<>>
    /\ calls = <<>>
    /\ users = InitialUsers
    /\ signups = [r \in Requests |-> NoSignup]

ListingVars == <<pc, query, validated, issued, snapshots, productsResult, responses, logged>>

Write ==
    /\ writes < MaxWrites
    /\ \/ \E body \in CreateInputs : CreateProduct(body)
       \/ \E productId \in ProductIdInputs, body \in UpdateInputs : UpdateProduct(productId, body)
       \/ \E productId \in ProductIdInputs, updates \in PatchInputs : PatchProduct(productId, updates)
       \/ \E productId \in ProductIdInputs : DeleteProduct(productId)
    /\ UNCHANGED ListingVars
    /\ UNCHANGED ApiVars

Listing ==
    /\ \/ ProductsQueryReturns
       \/ ProductsQueryFails
       \/ CountQueryReturns
       \/ CountQueryFails
    /\ UNCHANGED ApiVars

\* a listing request interleaved with product writes
Next ==
    \/ (pc = "idle" /\ UNCHANGED ApiVars /\ \E q \in InterleavedQueries : GetProducts(q))
    \/ Listing
    \/ Write

Spec == Init /\ [][Next]_vars

\* a listing request on its own
NextListing ==
    \/ (pc = "idle" /\ UNCHANGED ApiVars /\ \E q \in ListingQueries : GetProducts(q))
    \/ Listing

SpecListing == Init /\ [][NextListing]_vars

\* the snake_case spellings of the keys
snakePriceMin == <<"p","r","i","c","e","_","m","i","n">>
snakePriceMax == <<"p","r","i","c","e","_","m","a","x">>
snakeSortBy   == <<"s","o","r","t","_","b","y">>

\* listing requests that spell their keys in camelCase or in snake_case
SpelledQueries ==
    {a \o b \o c \o d :
        a \in Param({kPriceMin, snakePriceMin}, PriceMinInputs),
        b \in Param({kPriceMax, snakePriceMax}, PriceMaxInputs),
        c \in Param({kSortBy, snakeSortBy}, {colName, <<"b","o","g","u","s">>}),
        d \in Param({kOrder}, {asc})}

\* a listing request on its own, its keys in either spelling
NextSpelled ==
    \/ (pc = "idle" /\ UNCHANGED ApiVars /\ \E q \in SpelledQueries : GetProducts(q))
    \/ Listing

SpecSpelled == Init /\ [][NextSpelled]_vars

\* the number of times the same listing request is sent
MaxRequests == 2

\* the request is over: what getProducts held for it (validationResult, the
\* statements, the rows) is gone; the response stays with the caller
EndRequest ==
    /\ pc = "done"
    /\ Len(responses) < MaxRequests
    /\ pc' = "idle"
    /\ validated' = NotValidated
    /\ issued' = <<>>
    /\ snapshots' = <<>>
    /\ productsResult' = <<>>
    /\ UNCHANGED <<products, nextId, writes, query, responses, logged, writeResponses>>
    /\ UNCHANGED ApiVars

\* a listing request sent again, with no write to the tables
NextRepeat ==
    \/ (pc = "idle" /\ responses = <<>> /\ UNCHANGED ApiVars
            /\ \E q \in InterleavedQueries : GetProducts(q))
    \/ (pc = "idle" /\ Len(responses) >= 1 /\ UNCHANGED ApiVars /\ GetProducts(query))
    \/ Listing
    \/ EndRequest

SpecRepeat == Init /\ [][NextRepeat]_vars

-----------------------------------------------------------------------------
(* Properties *)

\* the parameter of the listing request under its camelCase key
Raw(name) == Property(mapKeys(query), name)

\* the listing request has been received and its parameters pass the schema
Accepted == pc # "idle" /\ safeParse(mapKeys(query)).success
Rejected == pc # "idle" /\ ~safeParse(mapKeys(query)).success

\* the value of a numeric parameter, or its default when it is absent
RawNumber(name, default) ==
    IF Raw(name).t = "undefined" THEN default ELSE DigitsValue(Raw(name).s)

Sent(statusCode) ==
    \E i \in 1..Len(responses) : responses[i].statusCode = statusCode

ASC  == <<"A","S","C">>
DESC == <<"D","E","S","C">>

\* C1: a listing request whose parameters fail validation hands no statement
\* to pool.execute: it ends with its one response and an empty list of
\* issued statements.
C1_NoQueryWhenInvalid ==
    Rejected => (issued = <<>> /\ pc = "done" /\ Len(responses) = 1)

C1_Witness ==
    /\ Rejected
    /\ pc = "done"
    /\ issued = <<>>
    /\ Sent(BAD_REQUEST)

\* C2: a listing request has no response while it runs and exactly one when
\* it has ended; when a statement failed that response is an error without
\* data, when both statements returned it is the success response, and a
\* listing payload is never sent unless both statements returned.
C2_ExactlyOneResponse ==
    /\ Len(responses) = (IF pc = "done" THEN 1 ELSE 0)
    /\ (pc = "done" /\ Len(snapshots) < Len(issued)) =>
          /\ responses[1].statusCode = INTERNAL_SERVER_ERROR
          /\ responses[1].status = "error"
          /\ responses[1].data.kind = "undefined"
    /\ (pc = "done" /\ Len(snapshots) = 2) =>
          /\ responses[1].statusCode = OK
          /\ responses[1].status = "success"
          /\ responses[1].data.kind = "listing"
    /\ \A i \in 1..Len(responses) :
          responses[i].data.kind = "listing" => Len(snapshots) = 2

\* the count statement fails after the data statement returned rows
C2_Witness ==
    /\ pc = "done"
    /\ Len(issued) = 2
    /\ Len(snapshots) = 1
    /\ Len(productsResult) > 0
    /\ Len(responses) = 1
    /\ responses[1].statusCode = INTERNAL_SERVER_ERROR

\* C3 as stated: every listing request that passed validation and has ended
\* issued exactly two statements.
C3_ExactlyTwoQueries ==
    (Accepted /\ pc = "done") => Len(issued) = 2

\* C3 as amended: a listing request that passed validation issues the data
\* statement and, only after it returned, the count statement (two statements
\* when the data statement returns, one when it fails); neither changes the
\* products table, and the success response is sent only after both returned.
C3_QueriesInSequence ==
    /\ Accepted =>
          /\ Len(issued) \in {1, 2}
          /\ issued[1] = ProductsQuery(validated)
    /\ Len(issued) = 2 =>
          /\ Len(snapshots) >= 1
          /\ issued[2].select = "COUNT(*) AS total"
    /\ (Accepted /\ pc = "done" /\ Len(issued) = 1) =>
          /\ snapshots = <<>>
          /\ Sent(INTERNAL_SERVER_ERROR)
    /\ (Accepted /\ Len(snapshots) >= 1) => Len(issued) = 2
    /\ Sent(OK) => (Len(issued) = 2 /\ Len(snapshots) = 2)
    /\ products = InitialProducts

C3_Witness ==
    /\ Accepted
    /\ pc = "done"
    /\ Len(issued) = 2
    /\ Len(snapshots) = 2
    /\ Sent(OK)

\* C4: the rows and the total of a success response come from the same state
\* of the products table.
C4_SameSnapshot ==
    Sent(OK) => snapshots[1] = snapshots[2]

\* C5: in every statement the listing request issues, the text holds a
\* placeholder where a filter value goes, and the value is a bound parameter.
C5_ValuesBound ==
    \A i \in 1..Len(issued) :
        /\ \A j \in 1..Len(issued[i].where) : issued[i].where[j].value = <<"?">>
        /\ Len(issued[i].params) = issued[i].placeholders + Len(issued[i].where)

\* C6: the data statement has an ORDER BY whose column is one of id, name,
\* original_price, discount_price and whose direction is ASC or DESC.
C6_OrderByWhitelisted ==
    Len(issued) >= 1 =>
        /\ issued[1].orderBy \in SortableColumns
        /\ issued[1].direction \in {ASC, DESC}

\* the request names the column and the direction itself
C6_Witness ==
    /\ Len(issued) >= 1
    /\ Raw(kSortBy).t = "string"
    /\ Raw(kOrder).t = "string"
    /\ issued[1].orderBy = colOriginalPrice
    /\ issued[1].direction = ASC

\* C7: the count statement has the join and the predicates of the data statement.
C7_CountMatchesData ==
    Len(issued) = 2 =>
        /\ issued[2].from = issued[1].from
        /\ issued[2].where = issued[1].where

\* all four filters are present and each gives a predicate
C7_Witness ==
    /\ Len(issued) = 2
    /\ Len(issued[1].where) = 4
    /\ Len(issued[2].where) = 4

\* C8: the data statement is sent with offset (page - 1) * limit, and the
\* success response reports as totalPages the least n with n * limit >=
\* totalItems, which is 0 when totalItems is 0.
C8_PaginationMath ==
    LET page == RawNumber(kPage, 1)
        limit == RawNumber(kLimit, 10)
    IN  /\ (Accepted /\ Len(issued) >= 1) =>
              issued[1].params = <<toString(limit), toString((page - 1) * limit)>>
        /\ \A i \in 1..Len(responses) :
              responses[i].statusCode = OK =>
                  LET p == responses[i].data.pagination
                  IN  /\ p.currentPage = page
                      /\ p.itemsPerPage = limit
                      /\ p.totalPages * limit >= p.totalItems
                      /\ p.totalPages > 0 => (p.totalPages - 1) * limit < p.totalItems
                      /\ p.totalItems = 0 => p.totalPages = 0

\* three rows in pages of two, second page asked for
C8_Witness ==
    /\ Sent(OK)
    /\ responses[1].data.pagination.totalItems = 3
    /\ responses[1].data.pagination.itemsPerPage = 2
    /\ responses[1].data.pagination.totalPages = 2
    /\ responses[1].data.pagination.currentPage = 2
    /\ issued[1].params = << <<"2">>, <<"2">> >>

\* the filters the request carries with a value that is not the empty text
Filters == {kCategory, kPriceMin, kPriceMax, kSearch}
PresentFilters == {k \in Filters : Raw(k).t = "string" /\ Len(Raw(k).s) > 0}

\* C9: the statements of an accepted listing request have one predicate for
\* each filter the request carries and none for a filter it does not carry.
C9_OnePredicatePerFilter ==
    Accepted =>
        \A i \in 1..Len(issued) : Len(issued[i].where) = Cardinality(PresentFilters)

\* the rules a request violates, as the messages the schema gives for them
ViolatedRules ==
    LET entries == mapKeys(query)
        fields == FieldIssues(ParseFields(entries))
        min == Raw(kPriceMin)
        max == Raw(kPriceMax)
        range == /\ min.t = "string" /\ MatchesDigits(min.s)
                 /\ max.t = "string" /\ MatchesPositive(max.s)
                 /\ ~(DigitsValue(min.s) < DigitsValue(max.s))
    IN  {fields[i] : i \in 1..Len(fields)} \cup
        (IF range THEN {<<"Minimum price must be less than maximum price">>} ELSE {})

\* C10: the 400 response to a listing request that violates several
\* validation rules holds the message of every rule it violates.
C10_EveryMessage ==
    (pc = "done" /\ Cardinality(ViolatedRules) >= 2 /\ Sent(BAD_REQUEST)) =>
        \A m \in ViolatedRules : includes(responses[1].message, m)

\* both price bounds are in the request and match their patterns
BothBoundsParse ==
    /\ Raw(kPriceMin).t = "string" /\ MatchesDigits(Raw(kPriceMin).s)
    /\ Raw(kPriceMax).t = "string" /\ MatchesPositive(Raw(kPriceMax).s)

RangeMessage == <<"Minimum price must be less than maximum price">>

\* C11: a listing request whose price bounds both parse passes validation
\* only if priceMin < priceMax, and ends with a 400 response when priceMin
\* is not below priceMax; a request with at most one bound never gets the
\* message of the range rule.
C11_PriceRange ==
    /\ (BothBoundsParse /\ Accepted) =>
          DigitsValue(Raw(kPriceMin).s) < DigitsValue(Raw(kPriceMax).s)
    /\ (BothBoundsParse /\ pc = "done"
          /\ ~(DigitsValue(Raw(kPriceMin).s) < DigitsValue(Raw(kPriceMax).s))) =>
          (Len(responses) = 1 /\ responses[1].statusCode = BAD_REQUEST)
    /\ (Raw(kPriceMin).t = "undefined" \/ Raw(kPriceMax).t = "undefined") =>
          \A i \in 1..Len(responses) : ~includes(responses[i].message, RangeMessage)

\* the text is the decimal numeral of a positive integer
PositiveInteger(s) ==
    /\ Len(s) > 0
    /\ \A i \in 1..Len(s) : s[i] \in DigitSet
    /\ DigitsValue(s) > 0
    /\ toString(DigitsValue(s)) = s

\* the request gives a limit, or a page, that the specification allows
LimitAllowed ==
    Raw(kLimit).t = "undefined"
        \/ (PositiveInteger(Raw(kLimit).s) /\ DigitsValue(Raw(kLimit).s) <= 100)
PageAllowed ==
    Raw(kPage).t = "undefined" \/ PositiveInteger(Raw(kPage).s)

\* every parameter of the request is one of the keys
OnlyParams(keys) ==
    \A i \in 1..Len(query) : camelCase(query[i].key) \in keys

\* C12: a listing request passes validation only if its limit is a positive
\* integer not above 100 and its page a positive integer; a request that
\* carries nothing but limit and page passes exactly then, and ends with a
\* 400 response otherwise.
C12_LimitAndPage ==
    /\ Accepted => (LimitAllowed /\ PageAllowed)
    /\ (pc # "idle" /\ OnlyParams({kLimit, kPage})) =>
          /\ Accepted <=> (LimitAllowed /\ PageAllowed)
          /\ (pc = "done" /\ ~(LimitAllowed /\ PageAllowed)) =>
                (Len(responses) = 1 /\ responses[1].statusCode = BAD_REQUEST)

\* limit=101 is answered with 400 and the message of the upper bound
C12_Witness ==
    /\ pc = "done"
    /\ query = <<Entry(kLimit, <<"1","0","1">>)>>
    /\ Sent(BAD_REQUEST)
    /\ responses[1].message = <<"Limit must be less than or equal to 100">>

C14_OrderAnyCase ==
    (pc # "idle" /\ Raw(kOrder).t = "string") =>
        IF toLowerCase(Raw(kOrder).s) \in Orders
        THEN /\ ParseOrder(Raw(kOrder)).issues = <<>>
             /\ OnlyParams({kOrder}) =>
                   (Accepted /\ issued[1].direction = toUpperCase(Raw(kOrder).s))
        ELSE Rejected

\* C15: when a statement of the listing request fails, the response is a 500
\* whose message is the fixed database-error text, whatever the message of
\* the storage error.
C15_GenericMessage ==
    (pc = "done" /\ Len(snapshots) < Len(issued)) =>
        /\ Len(responses) = 1
        /\ responses[1].statusCode = INTERNAL_SERVER_ERROR
        /\ responses[1].message = GenericDatabaseMessage

\* C16: when both statements of a listing request return, the response is a
\* 200 whose currentPage is the page asked for; if no row matches the
\* filters, or the page lies beyond totalPages, the products list is empty
\* and the pagination still gives the number of matching rows, the limit
\* and the number of pages.
C16_EmptyPageIsSuccess ==
    (pc = "done" /\ Len(snapshots) = 2) =>
        LET p == responses[1].data.pagination
            limit == RawNumber(kLimit, 10)
            matching == Cardinality(Matching(issued[1], products))
        IN  /\ Len(responses) = 1
            /\ responses[1].statusCode = OK
            /\ responses[1].status = "success"
            /\ p.currentPage = RawNumber(kPage, 1)
            /\ (matching = 0 \/ p.currentPage > p.totalPages) =>
                  /\ responses[1].data.products = <<>>
                  /\ p.currentItems = 0
                  /\ p.totalItems = matching
                  /\ p.itemsPerPage = limit
                  /\ p.totalPages = (matching + limit - 1) \div limit

\* page 2 of a listing that has one page
C16_Witness ==
    /\ Sent(OK)
    /\ responses[1].data.products = <<>>
    /\ responses[1].data.pagination.currentPage = 2
    /\ responses[1].data.pagination.totalPages = 1
    /\ responses[1].data.pagination.totalItems = 3

\* C17: when the same listing request is answered twice with 200 and the
\* tables have not been written in between, the two responses carry the
\* same products in the same order and the same pagination.
C17_SameResponseTwice ==
    (Len(responses) = 2 /\ responses[1].statusCode = OK /\ responses[2].statusCode = OK) =>
        /\ responses[1].data.products = responses[2].data.products
        /\ responses[1].data.pagination = responses[2].data.pagination

\* C18: every product of a success response satisfies every filter the
\* request carries: its categoryName is the category, its discountPrice is
\* within the price bounds, and its name contains the search term (letter
\* case set aside).
C18_ResultsSatisfyFilters ==
    \A i \in 1..Len(responses) :
        responses[i].statusCode = OK =>
            \A j \in 1..Len(responses[i].data.products) :
                LET product == responses[i].data.products[j]
                IN  /\ Raw(kCategory).t = "string" =>
                          product.categoryName = Raw(kCategory).s
                    /\ Raw(kPriceMin).t = "string" =>
                          product.discountPrice >= DigitsValue(Raw(kPriceMin).s)
                    /\ Raw(kPriceMax).t = "string" =>
                          product.discountPrice <= DigitsValue(Raw(kPriceMax).s)
                    /\ Raw(kSearch).t = "string" =>
                          includes(toLowerCase(product.name), toLowerCase(Raw(kSearch).s))

\* C19: a success response over an unchanged table with M rows matching the
\* WHERE clause of the data statement has totalItems = M, currentPage = page,
\* itemsPerPage = limit and currentItems = min(limit, max(0, M - (page - 1) *
\* limit)), the length of its products list; page 2 of 12 rows in pages of 5
\* has 5 items and there are 3 pages.
C19_PaginationCounts ==
    /\ TotalPages(12, 5) = 3
    /\ Min(5, 12 - Offset(2, 5)) = 5
    /\ \A i \in 1..Len(responses) :
          responses[i].statusCode = OK =>
              LET p == responses[i].data.pagination
                  page == RawNumber(kPage, 1)
                  limit == RawNumber(kLimit, 10)
                  M == Cardinality(Matching(issued[1], InitialProducts))
                  rest == M - (page - 1) * limit
              IN  /\ p.totalItems = M
                  /\ p.currentPage = page
                  /\ p.itemsPerPage = limit
                  /\ p.currentItems = Min(limit, IF rest > 0 THEN rest ELSE 0)
                  /\ Len(responses[i].data.products) = p.currentItems

\* the second page of three rows in pages of two holds one row
C19_Witness ==
    /\ Sent(OK)
    /\ Raw(kPage) = Str(<<"2">>)
    /\ Raw(kLimit) = Str(<<"2">>)
    /\ responses[1].data.pagination.totalItems = 3
    /\ responses[1].data.pagination.currentItems = 1
    /\ Len(responses[1].data.products) = 1

\* the column and the order the request asks for, with the defaults
AskedSortBy == IF Raw(kSortBy).t = "undefined" THEN colId ELSE Raw(kSortBy).s
AskedOrder  == IF Raw(kOrder).t = "undefined" THEN desc ELSE Raw(kOrder).s

\* product a is not above product b in the column; names compare as the
\* column's collation compares them, without regard to letter case
ColumnLeq(a, b, column) ==
    CASE column = colId -> a.id <= b.id
      [] column = colName -> ~StringLess(toLowerCase(b.name), toLowerCase(a.name))
      [] column = colOriginalPrice -> a.originalPrice <= b.originalPrice
      [] column = colDiscountPrice -> a.discountPrice <= b.discountPrice

\* C20: the products of a success response are in non-increasing order of
\* the sortBy column when the order is desc and in non-decreasing order when
\* it is asc, for each of the four sortable columns.
C20_Sorted ==
    \A i \in 1..Len(responses) :
        responses[i].statusCode = OK =>
            LET list == responses[i].data.products
            IN  \A j \in 1..Len(list) : \A k \in 1..Len(list) :
                    j < k => IF AskedOrder = desc
                             THEN ColumnLeq(list[k], list[j], AskedSortBy)
                             ELSE ColumnLeq(list[j], list[k], AskedSortBy)

\* sortBy=discount_price&order=desc: the dearest product comes first
C20_Witness ==
    /\ Sent(OK)
    /\ Raw(kSortBy) = Str(colDiscountPrice)
    /\ Raw(kOrder) = Str(desc)
    /\ Len(responses[1].data.products) = 3
    /\ responses[1].data.products[1].discountPrice = 200
    /\ responses[1].data.products[3].discountPrice = 100

\* C21: a listing request whose category is not one of the category names
\* ends with a 400 response whose message names the category field, and no
\* statement is issued.
C21_InvalidCategoryNamed ==
    (pc = "done" /\ Raw(kCategory).t = "string" /\ Raw(kCategory).s \notin ProductCategory) =>
        /\ issued = <<>>
        /\ Len(responses) = 1
        /\ responses[1].statusCode = BAD_REQUEST
        /\ includes(responses[1].message, kCategory)

-----------------------------------------------------------------------------
(* The handlers other than getProducts.  A call of one of them is one step: *)
(* its statement, the statement's effect on the tables and its response.    *)
(* calls keeps, for every call that has ended, what it was given, the       *)
(* products table before and after it, and its response.                    *)

\* the calls of one behaviour
MaxCalls == 2

UnauthorizedError(message) ==
    [name |-> "UnauthorizedError", message |-> message, issues |-> <<>>]

\* a statement with placeholders, and the values bound to them
Statement(sql, values) == [sql |-> sql, values |-> values]

\* the call that ends with this step
Called(handler, input, statements, response) ==
    calls' = Append(calls, [handler |-> handler, input |-> input,
                            statements |-> statements,
                            before |-> products, after |-> products',
                            response |-> response])

\* productQuerySchema: productId is z.string().regex(/^[1-9]\d*$/).transform(Number);
\* a regex without a message reports zod's 'Invalid'
ParseProductId(v) ==
    TransformNumber(IF MatchesPositive(v.s) THEN Valid(v)
                    ELSE Dirty(v, << <<"Invalid">> >>))

\* the columns getProductById selects
SelectedProduct(row) ==
    [id |-> row.id, name |-> row.name, original_price |-> row.original_price,
     discount_price |-> row.discount_price, description |-> row.description]

\* getProductById without the schema: the parameter goes to the statement as it is
GetProductByIdUnvalidated(productId) ==
    LET stmt == Statement(
            <<"SELECT id, name, original_price, discount_price, description FROM products WHERE id = ?">>,
            <<Str(productId)>>)
        rows == RowsWithId(productId)
    IN  /\ UNCHANGED <<products, nextId, writes, writeResponses>>
        /\ IF rows = {}
           THEN Called("getProductById", [productId |-> productId], <<stmt>>,
                       Thrown(NotFoundError(<<"Product not found">>)).response)
           ELSE Called("getProductById", [productId |-> productId], <<stmt>>,
                       sendResponse(OK, <<"Product retrieved successfully">>,
                           [kind |-> "product",
                            product |-> SelectedProduct(CHOOSE row \in rows : TRUE)]))

\* getProductById (lines 158-180); productId is req.params.productId
GetProductById(productId) ==
    LET validationResult == ParseProductId(Str(productId))
        stmt == Statement(
            <<"SELECT id, name, original_price, discount_price, description FROM products WHERE id = ?">>,
            <<validationResult.value>>)
        rows == {row \in products : Num(row.id) = validationResult.value}
    IN  /\ UNCHANGED <<products, nextId, writes, writeResponses>>
        /\ IF validationResult.status # "valid"
           THEN Called("getProductById", [productId |-> productId], <<>>,
                       Thrown(ZodError(validationResult.issues)).response)
           ELSE \/ \E err \in {ConnectionRefused} :
                      Called("getProductById", [productId |-> productId], <<stmt>>,
                             Thrown(err).response)
                \/ /\ rows = {}
                   /\ Called("getProductById", [productId |-> productId], <<stmt>>,
                             Thrown(NotFoundError(<<"Product not found">>)).response)
                \/ /\ rows # {}
                   /\ Called("getProductById", [productId |-> productId], <<stmt>>,
                             sendResponse(OK, <<"Product retrieved successfully">>,
                                 [kind |-> "product",
                                  product |-> SelectedProduct(CHOOSE row \in rows : TRUE)]))

\* the productId parameters of the requests for one product
ProductIdParams == ProductIdInputs \cup {<<"0">>, <<"x">>}

\* the variables the calls of this section leave alone
OtherVars == <<pc, query, validated, issued, snapshots, productsResult, responses, logged,
               users, signups>>

\* GET /products/:productId
ProductRead ==
    /\ Len(calls) < MaxCalls
    /\ \E productId \in ProductIdParams : GetProductById(productId)
    /\ UNCHANGED OtherVars

\* the statements the writers send (lines 199-202, 233-236, 254-262, 279)
CreateStatements(body) ==
    IF Len(createProductIssues(body)) > 0 THEN <<>>
    ELSE <<Statement(
             <<"INSERT INTO products (name, original_price, discount_price, category_id) VALUES (?, ?, ?, ?)">>,
             <<Str(body.name), Num(body.originalPrice), Num(body.discountPrice),
               Num(body.categoryId)>>)>>

UpdateStatements(productId, body) ==
    IF Len(updateProductIssues(body)) > 0 THEN <<>>
    ELSE <<Statement(
             <<"UPDATE products SET name = ?, original_price = ?, discount_price = ?, description = ? WHERE id = ?">>,
             <<Str(body.name), Num(body.original_price), Num(body.discount_price),
               Str(body.description), Str(productId)>>)>>

\* Object.keys(updates).map((key) => `${key} = ?`).join(', ') inside the
\* UPDATE text, Object.values(updates) and productId as the values
PatchStatements(productId, updates) ==
    <<Statement(
        <<"UPDATE products SET ">> \o
            Join([i \in 1..Len(updates) |-> updates[i].key \o <<" = ?">>], ", ") \o
            <<" WHERE id = ?">>,
        [i \in 1..Len(updates) |-> Num(updates[i].value)] \o <<Str(productId)>>)>>

DeleteStatements(productId) ==
    <<Statement(<<"DELETE FROM products WHERE id = ?">>, <<Str(productId)>>)>>

\* the bodies of POST /products: also a discountPrice above the originalPrice,
\* a category that does not exist and a price below the minimum
CreateBodies ==
    CreateInputs \cup
    {[name |-> <<"d">>, categoryId |-> 1, originalPrice |-> 150, discountPrice |-> 300],
     [name |-> <<"d">>, categoryId |-> 11, originalPrice |-> 300, discountPrice |-> 150],
     [name |-> <<"d">>, categoryId |-> 1, originalPrice |-> 300, discountPrice |-> 50]}

\* the response of the write that ends with this step
Answer == writeResponses'[Len(writeResponses')]

\* POST, PUT, PATCH and DELETE of /products
ProductWrite ==
    /\ Len(calls) < MaxCalls
    /\ \/ \E body \in CreateBodies :
            /\ CreateProduct(body)
            /\ Called("createProduct", [body |-> body], CreateStatements(body), Answer)
       \/ \E productId \in ProductIdInputs, body \in UpdateInputs :
            /\ UpdateProduct(productId, body)
            /\ Called("updateProduct", [productId |-> productId, body |-> body],
                      UpdateStatements(productId, body), Answer)
       \/ \E productId \in ProductIdInputs, updates \in PatchInputs :
            /\ PatchProduct(productId, updates)
            /\ Called("patchProduct", [productId |-> productId, body |-> updates],
                      PatchStatements(productId, updates), Answer)
       \/ \E productId \in ProductIdInputs :
            /\ DeleteProduct(productId)
            /\ Called("deleteProduct", [productId |-> productId], DeleteStatements(productId), Answer)
    /\ UNCHANGED OtherVars

\* a value that is thrown and is no Error, such as a string
NonError(value) == [name |-> "NonError", message |-> value, issues |-> <<>>]

\* error values of every kind errorHandler tells apart
ErrorValues ==
    {NotFoundError(<<"Product not found">>),
     UnauthorizedError(<<"Invalid token">>),
     DatabaseError(GenericDatabaseMessage),
     ZodError(<< <<"Invalid">>, <<"Page must be a positive integer">> >>),
     ConnectionRefused,
     ParseError,
     NonError(<<"o","o","p","s">>)}

\* next(err) reaches errorHandler
ErrorHandling ==
    /\ Len(calls) < MaxCalls
    /\ UNCHANGED <<products, nextId, writes, writeResponses>>
    /\ \E err \in ErrorValues :
          Called("errorHandler", [err |-> err], <<>>, errorHandler(err).response)
    /\ UNCHANGED OtherVars

\* the calls of the handlers, one after the other
NextApi ==
    \/ ProductRead
    \/ ProductWrite
    \/ ErrorHandling

SpecApi == Init /\ [][NextApi]_vars

-----------------------------------------------------------------------------
(* Properties of the other handlers *)

\* the calls of a handler that have ended
CallsOf(handler) == {i \in 1..Len(calls) : calls[i].handler = handler}

\* the rows of a table with this id
RowsOf(table, id) == {row \in table : row.id = id}

\* C22: getProductById answers 400 and sends no statement when productId is
\* not the decimal text of a positive integer; otherwise, when storage
\* answers, it answers 404 'Product not found' if no row of products has that
\* id and 200 with the columns of the row that has it if there is one.
C22_GetProductById ==
    \A i \in CallsOf("getProductById") :
        LET call == calls[i]
            productId == call.input.productId
        IN  IF ~PositiveInteger(productId)
            THEN /\ call.statements = <<>>
                 /\ call.response.statusCode = BAD_REQUEST
            ELSE /\ Len(call.statements) = 1
                 /\ call.after = call.before
                 /\ \/ call.response =
                          sendResponse(INTERNAL_SERVER_ERROR, ConnectionRefused.message, NoData)
                    \/ /\ RowsOf(call.before, DigitsValue(productId)) = {}
                       /\ call.response.statusCode = NOT_FOUND
                       /\ call.response.message = <<"Product not found">>
                    \/ /\ call.response.statusCode = OK
                       /\ call.response.data.kind = "product"
                       /\ call.response.data.product.id = DigitsValue(productId)
                       /\ \E row \in call.before :
                              call.response.data.product = SelectedProduct(row)

\* one request with a productId that is no number was refused and another
\* was answered with the product
C22_Witness ==
    /\ \E i \in CallsOf("getProductById") :
          /\ calls[i].input.productId = <<"x">>
          /\ calls[i].response.statusCode = BAD_REQUEST
    /\ \E i \in CallsOf("getProductById") :
          /\ calls[i].input.productId = <<"1">>
          /\ calls[i].response.statusCode = OK

\* the body passes createProductSchema apart from its refinement
FieldsValid(body) ==
    /\ Len(body.name) \in 1..MaxNameLength
    /\ body.categoryId > 0
    /\ body.originalPrice >= MinPrice
    /\ body.discountPrice >= MinPrice

\* C23: createProduct inserts a row and answers 201 only when the body is
\* valid and its discountPrice is below its originalPrice, and then the row
\* is the body's and productId is the new row's positive id; a body whose
\* discountPrice is not below its originalPrice gets 400 and no row.
C23_CreateProduct ==
    \A i \in CallsOf("createProduct") :
        LET call == calls[i]
            body == call.input.body
        IN  /\ (call.after # call.before \/ call.response.statusCode = CREATED) =>
                  /\ FieldsValid(body)
                  /\ body.discountPrice < body.originalPrice
                  /\ call.response.statusCode = CREATED
                  /\ call.response.data.productId > 0
                  /\ call.before \subseteq call.after
                  /\ \E row \in call.after \ call.before :
                        /\ call.after = call.before \cup {row}
                        /\ row.id = call.response.data.productId
                        /\ RowsOf(call.before, row.id) = {}
                        /\ row.name = body.name
                        /\ row.category_id = body.categoryId
                        /\ row.original_price = body.originalPrice
                        /\ row.discount_price = body.discountPrice
            /\ body.discountPrice >= body.originalPrice =>
                  /\ call.response.statusCode = BAD_REQUEST
                  /\ call.after = call.before
                  /\ call.statements = <<>>

\* a product was created and a body with equal prices was refused
C23_Witness ==
    /\ \E i \in CallsOf("createProduct") : calls[i].response.statusCode = CREATED
    /\ \E i \in CallsOf("createProduct") :
          /\ calls[i].input.body.discountPrice >= calls[i].input.body.originalPrice
          /\ calls[i].response.statusCode = BAD_REQUEST

CamelSpelling(key) ==
    CASE key = snakePriceMin -> kPriceMin
      [] key = snakePriceMax -> kPriceMax
      [] key = snakeSortBy -> kSortBy
      [] OTHER -> key
CamelSpelled(q) == [i \in 1..Len(q) |-> Entry(CamelSpelling(q[i].key), q[i].value)]

\* what the handler makes of the request in camelCase spelling
CamelResult == safeParse(mapKeys(CamelSpelled(query)))

\* C25: a listing request that spells keys in snake_case (sort_by, price_min,
\* price_max) is validated as the request with the keys in camelCase is: the
\* same refusal with the same messages, or the same validated values and the
\* same statements.
C25_SnakeCaseKeys ==
    pc # "idle" =>
        IF CamelResult.success
        THEN /\ validated = CamelResult.data
             /\ Len(issued) >= 1
             /\ issued[1] = ProductsQuery(CamelResult.data)
             /\ Len(issued) >= 2 => issued[2] = CountQuery(CamelResult.data)
        ELSE /\ pc = "done"
             /\ issued = <<>>
             /\ responses = <<Thrown(ZodError(CamelResult.issues)).response>>

\* requests with snake_case keys were refused, and were accepted with the
\* values given under those keys
C25_Witness ==
    /\ pc = "done"
    /\ \E i \in 1..Len(query) : query[i].key = snakePriceMin
    /\ \E i \in 1..Len(query) : query[i].key = snakeSortBy
    /\ validated # NotValidated
    /\ validated.sortBy = Str(colName)
    /\ validated.priceMin = Num(150)

\* C26: every key that patchProduct writes into the text of its UPDATE
\* statement is a column of the closed list name, original_price,
\* discount_price; a key of the body outside that list is not in the text.
C26_PatchWhitelist ==
    \A i \in CallsOf("patchProduct") :
        \A k \in 1..Len(calls[i].input.body) :
            LET key == calls[i].input.body[k].key
            IN  key \notin PatchableColumns =>
                    \A s \in 1..Len(calls[i].statements) :
                        ~includes(calls[i].statements[s].sql, key)

\* a PATCH whose body has a key that is no column: the key is part of the
\* statement text
C26_KeyInStatement ==
    \E i \in CallsOf("patchProduct") :
        /\ calls[i].input.body = <<Entry(<<"b","o","g","u","s">>, 100)>>
        /\ calls[i].statements[1].sql =
               <<"UPDATE products SET ", "b","o","g","u","s", " = ?", " WHERE id = ?">>
        /\ calls[i].response.statusCode = INTERNAL_SERVER_ERROR

\* C27: for every error value errorHandler sends one response whose status
\* field is 'error': 404 for a NotFoundError, 401 for an UnauthorizedError,
\* 500 for a DatabaseError, 400 for a ZodError, 500 with the error's message
\* for any other Error and 500 'Internal server error' for a value that is
\* no Error.
C27_ErrorHandler ==
    \A i \in CallsOf("errorHandler") :
        LET err == calls[i].input.err
            response == calls[i].response
        IN  /\ response.status = "error"
            /\ err.name = "NotFoundError" => response.statusCode = NOT_FOUND
            /\ err.name = "UnauthorizedError" => response.statusCode = UNAUTHORIZED
            /\ err.name = "DatabaseError" => response.statusCode = INTERNAL_SERVER_ERROR
            /\ err.name = "ZodError" => response.statusCode = BAD_REQUEST
            /\ err.name = "Error" =>
                  /\ response.statusCode = INTERNAL_SERVER_ERROR
                  /\ response.message = err.message
            /\ err.name = "NonError" =>
                  /\ response.statusCode = INTERNAL_SERVER_ERROR
                  /\ response.message = <<"Internal server error">>

\* a ZodError and a value that is no Error have been handled
C27_Witness ==
    /\ \E i \in CallsOf("errorHandler") :
          calls[i].input.err.name = "ZodError" /\ calls[i].response.statusCode = BAD_REQUEST
    /\ \E i \in CallsOf("errorHandler") :
          calls[i].input.err.name = "NonError" /\
          calls[i].response.message = <<"Internal server error">>

-----------------------------------------------------------------------------
(* authenticate and the orders routes.  A token is one piece of text that  *)
(* holds no space; jwt.verify accepts the tokens signed with the secret    *)
(* that have not expired and returns their payload.                        *)

BearerPrefix == <<"B","e","a","r","e","r"," ">>

\* s.startsWith(prefix)
startsWith(s, prefix) == Len(s) >= Len(prefix) /\ SubSeq(s, 1, Len(prefix)) = prefix

\* s.split(separator), for a separator of one character
RECURSIVE split(_, _)
split(s, separator) ==
    LET hits == {i \in 1..Len(s) : s[i] = separator}
    IN  IF hits = {} THEN <<s>>
        ELSE LET i == CHOOSE h \in hits : \A k \in hits : h <= k
             IN  <<SubSeq(s, 1, i - 1)>> \o split(SubSeq(s, i + 1, Len(s)), separator)

\* the tokens jwt.verify accepts, and their payloads
TokenOfUser1 == <<"jwt.user1">>
TokenOfUser2 == <<"jwt.user2">>
SignedTokens == {TokenOfUser1, TokenOfUser2}
Payload(token) ==
    IF token = TokenOfUser1 THEN [userId |-> 1, email |-> <<"a@x.io">>]
    ELSE [userId |-> 2, email |-> <<"b@x.io">>]

\* req.user before authenticate sets it
NoUser == [userId |-> 0, email |-> <<>>]

\* an authenticate that verifies the token of any header
authenticateAnyScheme(authorization) ==
    LET pieces == split(authorization.s, " ")
        token == IF Len(pieces) >= 2 THEN pieces[2] ELSE <<>>
    IN  IF token \in SignedTokens
        THEN [next |-> TRUE, user |-> Payload(token), thrown |-> <<>>]
        ELSE [next |-> FALSE, user |-> NoUser,
              thrown |-> <<UnauthorizedError(<<"Invalid token">>)>>]

\* authenticate(req, _res, next) (middlewares/index.ts 34-51): whether next()
\* is called, req.user after it, and the error thrown
authenticate(authorization) ==
    IF ~Truthy(authorization) \/ ~startsWith(authorization.s, BearerPrefix)
    THEN [next |-> FALSE, user |-> NoUser,
          thrown |-> <<UnauthorizedError(<<"Authorization header is required or malformed">>)>>]
    ELSE LET token == split(authorization.s, " ")[2]
         IN  IF token \in SignedTokens
             THEN [next |-> TRUE, user |-> Payload(token), thrown |-> <<>>]
             ELSE [next |-> FALSE, user |-> NoUser,
                   thrown |-> <<UnauthorizedError(<<"Invalid token">>)>>]

\* the orders and order_items tables; no handler writes them
OrdersTable ==
    {[id |-> 1, user_id |-> 1, total_price |-> 500, status |-> "Paid",
      payment_method |-> "PayPal"],
     [id |-> 2, user_id |-> 2, total_price |-> 700, status |-> "Pending",
      payment_method |-> "Credit Card"],
     [id |-> 3, user_id |-> 1, total_price |-> 900, status |-> "Shipped",
      payment_method |-> "Bank Transfer"]}
OrderItems ==
    {[id |-> 1, order_id |-> 1, product_id |-> 1, quantity |-> 1, purchase_price |-> 200],
     [id |-> 2, order_id |-> 1, product_id |-> 3, quantity |-> 2, purchase_price |-> 150],
     [id |-> 3, order_id |-> 2, product_id |-> 2, quantity |-> 7, purchase_price |-> 100]}

\* the rows of a result in the orders MySQL may return them
Orderings(rows) ==
    {s \in [1..Cardinality(rows) -> rows] :
        \A i, j \in 1..Cardinality(rows) : i # j => s[i] # s[j]}

\* SELECT total_price, status, payment_method FROM orders WHERE user_id = ?
OrdersOfUser(userId) ==
    {[id |-> o.id, total_price |-> o.total_price, status |-> o.status,
      payment_method |-> o.payment_method] : o \in {o \in OrdersTable : o.user_id = userId}}

\* the row of the listing: the selected columns
OrderColumns(row) ==
    [total_price |-> row.total_price, status |-> row.status,
     payment_method |-> row.payment_method]

\* NULL of the LEFT JOIN
Null == 0

\* orders o LEFT JOIN order_items oi ON o.id = oi.order_id, for the orders
\* the WHERE clause keeps: an order without items gives one row of NULLs
Joined(found) ==
    UNION {
      LET items == {oi \in OrderItems : oi.order_id = o.id}
      IN  IF items = {}
          THEN {[total_price |-> o.total_price, status |-> o.status,
                 payment_method |-> o.payment_method, item |-> 0,
                 product_id |-> Null, quantity |-> Null, purchase_price |-> Null]}
          ELSE {[total_price |-> o.total_price, status |-> o.status,
                 payment_method |-> o.payment_method, item |-> oi.id,
                 product_id |-> oi.product_id, quantity |-> oi.quantity,
                 purchase_price |-> oi.purchase_price] : oi \in items}
      : o \in found}

\* WHERE o.id = ? AND o.user_id = ?
OrderRows(orderId, userId) ==
    Joined({o \in OrdersTable : Number(Str(orderId)) = Num(o.id) /\ o.user_id = userId})

\* the request that ends with this step: what authenticate did, and the rest
Requested(handler, input, auth, statements, response) ==
    calls' = Append(calls, [handler |-> handler, input |-> input,
                            next |-> auth.next, user |-> auth.user,
                            statements |-> statements, response |-> response])

\* router.get('/') of the orders routes (lines 13-33)
GetOrders(input, auth) ==
    LET userId == auth.user.userId
        stmt == Statement(
            <<"SELECT total_price, status, payment_method FROM orders WHERE user_id = ?;">>,
            <<Num(userId)>>)
    IN  \/ \E err \in {ConnectionRefused} :
              Requested("getOrders", input, auth, <<stmt>>, Thrown(err).response)
        \/ \E rows \in Orderings(OrdersOfUser(userId)) :
              Requested("getOrders", input, auth, <<stmt>>,
                  sendResponse(OK, <<"Orders retrieved successfully">>,
                      [kind |-> "orders",
                       orders |-> [i \in 1..Len(rows) |-> OrderColumns(rows[i])]]))

\* the statement of router.get('/:orderId')
OrderStatement(orderId, userId) ==
    Statement(
        <<"SELECT o.total_price, o.status, o.payment_method, oi.product_id, oi.quantity, oi.purchase_price FROM orders o LEFT JOIN order_items oi ON o.id = oi.order_id WHERE o.id = ? AND o.user_id = ?;">>,
        <<Str(orderId), Num(userId)>>)

\* rows.map((row) => ({ product_id, quantity, purchase_price }))
ItemOf(row) ==
    [product_id |-> row.product_id, quantity |-> row.quantity,
     purchase_price |-> row.purchase_price]

\* an order route that selects the order by its id alone
GetOrderByIdOfAnyUser(input, auth) ==
    LET userId == auth.user.userId
        stmt == OrderStatement(input.orderId, userId)
        result == Joined({o \in OrdersTable : Number(Str(input.orderId)) = Num(o.id)})
    IN  IF result = {}
        THEN Requested("getOrderById", input, auth, <<stmt>>,
                       Thrown(NotFoundError(<<"Order not found">>)).response)
        ELSE \E rows \in Orderings(result) :
              Requested("getOrderById", input, auth, <<stmt>>,
                  sendResponse(OK, <<"Order retrieved successfully">>,
                      [kind |-> "order", total_price |-> rows[1].total_price,
                       status |-> rows[1].status,
                       payment_method |-> rows[1].payment_method,
                       items |-> [i \in 1..Len(rows) |-> ItemOf(rows[i])]]))

\* router.get('/:orderId') of the orders routes (lines 35-76)
GetOrderById(input, auth) ==
    LET userId == auth.user.userId
        stmt == OrderStatement(input.orderId, userId)
        result == OrderRows(input.orderId, userId)
    IN  \/ \E err \in {ConnectionRefused} :
              Requested("getOrderById", input, auth, <<stmt>>, Thrown(err).response)
        \/ /\ result = {}
           /\ Requested("getOrderById", input, auth, <<stmt>>,
                        Thrown(NotFoundError(<<"Order not found">>)).response)
        \/ /\ result # {}
           /\ \E rows \in Orderings(result) :
                 Requested("getOrderById", input, auth, <<stmt>>,
                     sendResponse(OK, <<"Order retrieved successfully">>,
                         [kind |-> "order", total_price |-> rows[1].total_price,
                          status |-> rows[1].status,
                          payment_method |-> rows[1].payment_method,
                          items |-> [i \in 1..Len(rows) |-> ItemOf(rows[i])]]))

\* a request stopped by authenticate: the error goes to errorHandler
Unauthorized(handler, input, auth) ==
    Requested(handler, input, auth, <<>>, errorHandler(auth.thrown[1]).response)

\* the Authorization headers of the requests: none, another scheme, the
\* scheme in lower case, no space, no token, tokens that verify, a token that
\* does not, and a token followed by more text
AuthorizationInputs ==
    {Undefined,
     Str(<<"B","a","s","i","c"," ">> \o TokenOfUser1),
     Str(<<"b","e","a","r","e","r"," ">> \o TokenOfUser1),
     Str(<<"B","e","a","r","e","r">> \o TokenOfUser1),
     Str(BearerPrefix),
     Str(BearerPrefix \o TokenOfUser1),
     Str(BearerPrefix \o TokenOfUser2),
     Str(BearerPrefix \o <<"jwt.expired">>),
     Str(BearerPrefix \o TokenOfUser2 \o <<" ", "x">>)}

OrderIdInputs == {<<"1">>, <<"2">>, <<"3">>, <<"9">>}

\* GET /orders behind authenticate
OrdersListRequest ==
    /\ Len(calls) < MaxCalls
    /\ \E authorization \in AuthorizationInputs :
          LET auth == authenticate(authorization)
              input == [authorization |-> authorization]
          IN  IF auth.next THEN GetOrders(input, auth)
              ELSE Unauthorized("getOrders", input, auth)
    /\ UNCHANGED <<products, nextId, writes, writeResponses>>
    /\ UNCHANGED OtherVars

\* GET /orders/:orderId behind authenticate
OrderRequest ==
    /\ Len(calls) < MaxCalls
    /\ \E authorization \in AuthorizationInputs, orderId \in OrderIdInputs :
          LET auth == authenticate(authorization)
              input == [authorization |-> authorization, orderId |-> orderId]
          IN  IF auth.next THEN GetOrderById(input, auth)
              ELSE Unauthorized("getOrderById", input, auth)
    /\ UNCHANGED <<products, nextId, writes, writeResponses>>
    /\ UNCHANGED OtherVars

\* requests to the orders routes, one after the other
NextOrders ==
    \/ OrdersListRequest
    \/ OrderRequest

SpecOrders == Init /\ [][NextOrders]_vars

-----------------------------------------------------------------------------
(* Properties of authenticate and the orders routes *)

\* the requests to the orders routes that have ended
OrdersCalls == CallsOf("getOrders") \cup CallsOf("getOrderById")

\* the text of the header after 'Bearer ', up to the next space
TokenIn(header) ==
    LET rest == SubSeq(header.s, 8, Len(header.s))
        spaces == {i \in 1..Len(rest) : rest[i] = " "}
        end == IF spaces = {} THEN Len(rest) + 1
               ELSE CHOOSE i \in spaces : \A k \in spaces : i <= k
    IN  SubSeq(rest, 1, end - 1)

\* the header starts with 'Bearer ' and its token verifies
Verifies(header) ==
    /\ header.t = "string"
    /\ Len(header.s) >= 7
    /\ SubSeq(header.s, 1, 7) = <<"B","e","a","r","e","r"," ">>
    /\ TokenIn(header) \in SignedTokens

\* C28: authenticate calls next() and sets req.user, to the token's payload,
\* exactly when the Authorization header starts with 'Bearer ' and its token
\* verifies; in every other case next() is not called, req.user is not set,
\* the route sends no statement and the response is 401 with status 'error'.
C28_Authenticate ==
    \A i \in OrdersCalls :
        LET call == calls[i]
            header == call.input.authorization
        IN  IF Verifies(header)
            THEN /\ call.next
                 /\ call.user = Payload(TokenIn(header))
                 /\ Len(call.statements) = 1
                 /\ call.response.statusCode # UNAUTHORIZED
            ELSE /\ ~call.next
                 /\ call.user = NoUser
                 /\ call.statements = <<>>
                 /\ call.response.statusCode = UNAUTHORIZED
                 /\ call.response.status = "error"

\* a request with another scheme was refused and a request with a token that
\* verifies reached the route
C28_Witness ==
    /\ \E i \in OrdersCalls :
          /\ calls[i].input.authorization = Str(<<"B","a","s","i","c"," ">> \o TokenOfUser1)
          /\ calls[i].response.statusCode = UNAUTHORIZED
    /\ \E i \in OrdersCalls :
          /\ calls[i].input.authorization = Str(BearerPrefix \o TokenOfUser1)
          /\ calls[i].next
          /\ calls[i].response.statusCode = OK

\* the orders of a user, and their items
OwnedBy(userId) == {o \in OrdersTable : o.user_id = userId}
ItemsOf(o) == {oi \in OrderItems : oi.order_id = o.id}

\* the order the request names, if there is one
Named(orderId) == {o \in OrdersTable : toString(o.id) = orderId}

\* C29: GET /orders answers with the columns of the orders of the
\* authenticated user and of no other order; GET /orders/:orderId answers 200
\* only with an order of that user and its items, and for an order of another
\* user, when storage answers, it sends the 404 'Order not found' it sends
\* for an order that does not exist.
C29_OwnOrdersOnly ==
    /\ \A i \in CallsOf("getOrders") :
          LET call == calls[i]
          IN  call.response.statusCode = OK =>
                  /\ Len(call.response.data.orders) = Cardinality(OwnedBy(call.user.userId))
                  /\ \A k \in 1..Len(call.response.data.orders) :
                        /\ \E o \in OwnedBy(call.user.userId) :
                              call.response.data.orders[k] = OrderColumns(o)
                        /\ \A o \in OrdersTable \ OwnedBy(call.user.userId) :
                              call.response.data.orders[k] # OrderColumns(o)
    /\ \A i \in CallsOf("getOrderById") :
          LET call == calls[i]
              named == Named(call.input.orderId)
          IN  /\ call.response.statusCode = OK =>
                    \E o \in named \cap OwnedBy(call.user.userId) :
                        /\ call.response.data.total_price = o.total_price
                        /\ call.response.data.status = o.status
                        /\ call.response.data.payment_method = o.payment_method
                        /\ \A k \in 1..Len(call.response.data.items) :
                              \/ \E oi \in ItemsOf(o) : call.response.data.items[k] = ItemOf(oi)
                              \/ /\ ItemsOf(o) = {}
                                 /\ call.response.data.items[k].product_id = Null
              /\ (call.next /\ named \cap OwnedBy(call.user.userId) = {}) =>
                    \/ call.response = sendResponse(NOT_FOUND, <<"Order not found">>, NoData)
                    \/ call.response =
                          sendResponse(INTERNAL_SERVER_ERROR, ConnectionRefused.message, NoData)

\* user 1 asked for an order of user 2 and for an order that does not exist
\* and got the same 404
C29_Witness ==
    /\ Len(calls) = 2
    /\ calls[1].handler = "getOrderById"
    /\ calls[2].handler = "getOrderById"
    /\ calls[1].user.userId = 1
    /\ calls[2].user.userId = 1
    /\ calls[1].input.orderId = <<"2">>
    /\ calls[2].input.orderId = <<"9">>
    /\ calls[1].response.statusCode = NOT_FOUND
    /\ calls[1].response = calls[2].response

-----------------------------------------------------------------------------
(* POST /signup.  Several requests are in flight together: each awaits its *)
(* SELECT and later its INSERT, and the steps of different requests        *)
(* interleave.                                                             *)

\* z.string().email(), for texts over letters, digits, '@' and '.': one '@'
\* after a non-empty local part, and a domain with a '.' inside it
IsEmail(s) ==
    LET ats == {i \in 1..Len(s) : s[i] = "@"}
    IN  /\ Cardinality(ats) = 1
        /\ LET at == CHOOSE i \in ats : TRUE
           IN  /\ at > 1
               /\ \E d \in (at + 2)..(Len(s) - 1) : s[d] = "."
               /\ s[at + 1] # "."
               /\ s[Len(s)] # "."

\* the issues of signUpSchema (part_003 37-59), for a body of three strings
signUpIssues(body) ==
    (IF IsEmail(body.email) THEN <<>> ELSE << <<"Invalid email">> >>) \o
    (IF Len(body.password) >= 8 THEN <<>>
     ELSE << <<"Password must contain at least 8 character(s)">> >>) \o
    (IF /\ \E i \in 1..Len(body.password) : IsUpper(body.password[i])
        /\ \E i \in 1..Len(body.password) : IsLower(body.password[i])
        /\ \E i \in 1..Len(body.password) : IsDigit(body.password[i])
     THEN <<>>
     ELSE << <<"Password must contain at least 1 uppercase letter, 1 lowercase letter and 1 digit">> >>) \o
    (IF body.password = body.confirmPassword THEN <<>>
     ELSE << <<"Password and confirm password don't match">> >>)

\* email = ? and the UNIQUE key on email compare under the column's
\* collation, which takes no account of case
EqualEmail(a, b) == toLowerCase(a) = toLowerCase(b)

\* SELECT id FROM users WHERE email = ?
UsersWithEmail(email) == {u \in users : EqualEmail(u.email, email)}

\* the error of an INSERT that breaks the UNIQUE key
DuplicateEntry(email) ==
    Error(<<"Duplicate entry '">> \o email \o <<"' for key 'users.email'">>)

\* hashPassword(password): the text stored is not the password
hashPassword(password) == <<"$2b$10$">> \o password

\* the id AUTO_INCREMENT gives the next row (ids skipped after a failed
\* INSERT are not modelled)
NextUserId == 1 + Cardinality(users)

\* generateToken({ userId, email })
generateToken(userId, email) == [userId |-> userId, email |-> email]

\* the state every step of a signup leaves alone
SignupOtherVars == <<pc, query, validated, issued, snapshots, productsResult, responses,
                     logged, products, nextId, writes, writeResponses, calls>>

\* the request is over
SignupDone(r, response, inserted) ==
    signups' = [signups EXCEPT ![r] = [@ EXCEPT !.pc = "done", !.response = response,
                                                 !.inserted = inserted]]

\* lines 63-69: the body is validated; a body that fails is answered 400
SignupReceived(r, body) ==
    /\ signups[r].pc = "idle"
    /\ LET issues == signUpIssues(body)
           request == [pc |-> "check", body |-> body, seen |-> {}, inserted |-> FALSE,
                       response |-> NoData]
       IN  signups' = [signups EXCEPT ![r] =
               IF Len(issues) > 0
               THEN [request EXCEPT !.pc = "done",
                                    !.response = Thrown(ZodError(issues)).response]
               ELSE request]
    /\ UNCHANGED users
    /\ UNCHANGED SignupOtherVars

\* lines 71-76: the SELECT returns; seen is the table it ran against
ExistenceCheck(r) ==
    /\ signups[r].pc = "check"
    /\ IF UsersWithEmail(signups[r].body.email) # {}
       THEN signups' = [signups EXCEPT ![r] =
                [@ EXCEPT !.pc = "done", !.seen = users,
                          !.response = Thrown(UnauthorizedError(<<"Email already exists">>)).response]]
       ELSE signups' = [signups EXCEPT ![r] = [@ EXCEPT !.pc = "insert", !.seen = users]]
    /\ UNCHANGED users
    /\ UNCHANGED SignupOtherVars

\* an INSERT into a users table without the UNIQUE key
InsertUserWithoutKey(r) ==
    /\ signups[r].pc = "insert"
    /\ LET body == signups[r].body
       IN  /\ users' = users \cup {[id |-> NextUserId, email |-> body.email,
                                    password |-> hashPassword(body.password)]}
           /\ SignupDone(r, sendResponse(CREATED, <<"User created successfully">>,
                                 [kind |-> "token",
                                  token |-> generateToken(NextUserId, body.email)]), TRUE)
    /\ UNCHANGED SignupOtherVars

\* lines 78-98: the password is hashed and the INSERT returns, or is rejected
\* by the UNIQUE key on email
InsertUser(r) ==
    /\ signups[r].pc = "insert"
    /\ LET body == signups[r].body
       IN  IF UsersWithEmail(body.email) # {}
           THEN /\ UNCHANGED users
                /\ SignupDone(r, Thrown(DuplicateEntry(body.email)).response, FALSE)
           ELSE /\ users' = users \cup {[id |-> NextUserId, email |-> body.email,
                                         password |-> hashPassword(body.password)]}
                /\ SignupDone(r, sendResponse(CREATED, <<"User created successfully">>,
                                      [kind |-> "token",
                                       token |-> generateToken(NextUserId, body.email)]), TRUE)
    /\ UNCHANGED SignupOtherVars

\* pool.execute is rejected while a signup awaits it
SignupStorageFails(r) ==
    /\ signups[r].pc \in {"check", "insert"}
    /\ SignupDone(r, Thrown(ConnectionRefused).response, FALSE)
    /\ UNCHANGED users
    /\ UNCHANGED SignupOtherVars

Passw0rd == <<"P","a","s","s","w","0","r","d">>

\* the bodies of the signup requests: two spellings of one email, another
\* email, a text that is no email and a confirmation that does not match
SignupInputs ==
    {[email |-> <<"a","@","x",".","i","o">>, password |-> Passw0rd, confirmPassword |-> Passw0rd],
     [email |-> <<"A","@","x",".","i","o">>, password |-> Passw0rd, confirmPassword |-> Passw0rd],
     [email |-> <<"b","@","x",".","i","o">>, password |-> Passw0rd, confirmPassword |-> Passw0rd],
     [email |-> <<"a","x",".","i","o">>, password |-> Passw0rd, confirmPassword |-> Passw0rd],
     [email |-> <<"a","@","x",".","i","o">>, password |-> Passw0rd,
      confirmPassword |-> <<"p","a","s","s">>]}

\* concurrent signup requests
NextSignup ==
    \E r \in Requests :
        \/ \E body \in SignupInputs : SignupReceived(r, body)
        \/ ExistenceCheck(r)
        \/ InsertUser(r)
        \/ SignupStorageFails(r)

SpecSignup == Init /\ [][NextSignup]_vars

-----------------------------------------------------------------------------
(* Properties of signup *)

\* C30: whatever the interleaving of the signup requests, no two rows of
\* users have the same email, and a signup whose existence check ran when a
\* row with its email was there is answered 401 'Email already exists' and
\* has inserted nothing.
C30_OneRowPerEmail ==
    /\ \A u, v \in users : toLowerCase(u.email) = toLowerCase(v.email) => u = v
    /\ \A r \in Requests :
          (/\ signups[r].pc \in {"insert", "done"}
           /\ \E u \in signups[r].seen :
                 toLowerCase(u.email) = toLowerCase(signups[r].body.email)) =>
              /\ signups[r].pc = "done"
              /\ ~signups[r].inserted
              /\ signups[r].response =
                     sendResponse(UNAUTHORIZED, <<"Email already exists">>, NoData)

\* two signups for one email both passed the existence check; one inserted
\* the row and the other was rejected by the key; a later signup would be
\* answered 401
C30_Witness ==
    /\ \E r, q \in Requests :
          /\ r # q
          /\ signups[r].pc = "done"
          /\ signups[q].pc = "done"
          /\ signups[r].body.email = signups[q].body.email
          /\ signups[r].inserted
          /\ signups[q].response =
                 sendResponse(INTERNAL_SERVER_ERROR,
                              DuplicateEntry(signups[q].body.email).message, NoData)
          /\ Cardinality(users) = 1
    /\ \E r \in Requests :
          /\ signups[r].pc = "done"
          /\ signups[r].seen # {}
          /\ signups[r].response.statusCode = UNAUTHORIZED

====
